---------------------------- MODULE Spec2Model ----------------------------
(***************************************************************************)
(* Crash-safe test runner of Google Test (src/src/gtest-test-runner.cc).   *)
(*                                                                         *)
(* A run is modelled as two processes, "parent" and "child", that execute  *)
(* the same test program.  The parent asks a runner to AssumeRole() for    *)
(* every test unit; the runner forks (style "fast") or forks and           *)
(* re-executes the binary (style "threadsafe"), the child executes the     *)
(* test and reports test part results over a pipe, the parent reads the    *)
(* pipe in ReadAndInterpretStatusByte().  The pipe is a sequence of bytes; *)
(* a read blocks while the pipe is empty and a write end is still open,    *)
(* and the reads that the bytes in the pipe serve are one step.            *)
(*                                                                         *)
(* Modelling decisions:                                                    *)
(*  - integers are written as the 4 bytes of their two's complement,       *)
(*    least significant byte first (the code copies the host's int);       *)
(*  - a write of one message is atomic, but for the write during which     *)
(*    the process is killed (DieInWrite);                                  *)
(*  - reads of the pipe do not fail and EINTR retries are not shown, but   *)
(*    for the call of SafeRead that SpecSafeRead follows;                  *)
(*  - an uninitialized value that the code reads is a choice among the     *)
(*    values of Garbage*;                                                  *)
(*  - the caller of the runner (the test loop of gtest.cc, which is not    *)
(*    part of the sources at hand) is modelled from the specification.     *)
(***************************************************************************)
EXTENDS Integers, Sequences, FiniteSets, TLC

(***************************************************************************)
(* Bounds of the model.                                                    *)
(***************************************************************************)
\* Number of test units of the program.
NumUnits == 2
\* Largest value of the repeat flag.
MaxRepeat == 2
\* Largest number of test part results one execution of a test body reports.
MaxEmit == 2
\* Largest number of property events and clears a test body sends.
MaxProps == 2
\* Largest number of characters of an internal flag value that is parsed.
MaxFlagLen == 3
\* Largest bytes_to_read of the call of SafeRead that is followed.
MaxRead == 3
\* Largest number of EINTR returns of posix::Read within one call of SafeRead.
MaxInterrupts == 2

(***************************************************************************)
(* Bytes of the wire format.                                               *)
(***************************************************************************)
\* 'R'
kTestRunnerTestPartResult == 82
\* 'E'
kTestRunnerExited == 69
\* 'I'
kTestRunnerInternalError == 73
\* 'S', 'N', 'F'
kTypeSuccess == 83
kTypeNonFatalFailure == 78
kTypeFatalFailure == 70

Kinds == {"kSuccess", "kNonFatalFailure", "kFatalFailure"}
\* The value of a TestPartResult::Type variable that was never assigned.
Indeterminate == "indeterminate"

Min(a, b) == IF a < b THEN a ELSE b

(***************************************************************************)
(* C strings.  A const char* is NULL or points to characters without NUL.  *)
(***************************************************************************)
Str(chars) == [isNull |-> FALSE, chars |-> chars]
NullStr == [isNull |-> TRUE, chars |-> <<>>]

\* The characters of buffer up to the first NUL byte: string::assign(char*).
RECURSIVE TruncAtNul(_)
TruncAtNul(buf) ==
  IF buf = <<>> \/ Head(buf) = 0 THEN <<>>
  ELSE <<Head(buf)>> \o TruncAtNul(Tail(buf))

HasNul(buf) == \E i \in 1..Len(buf) : buf[i] = 0

(***************************************************************************)
(* 32-bit integers as 4 bytes, least significant first.  The values stay   *)
(* within the int range: a negative int is the complement of -(n + 1).     *)
(***************************************************************************)
LowFirst(u) ==
  << u % 256, (u \div 256) % 256, (u \div (256 * 256)) % 256,
     (u \div (256 * 256 * 256)) % 256 >>

Complement(b) == [i \in 1..4 |-> 255 - b[i]]

\* reinterpret_cast<char*>(&n), sizeof(n), of an int n.
Int32Bytes(n) == IF n >= 0 THEN LowFirst(n) ELSE Complement(LowFirst(-(n + 1)))

Magnitude(b) == b[1] + 256 * b[2] + 256 * 256 * b[3] + 256 * 256 * 256 * b[4]

\* The int that 4 bytes hold.  A uint32_t of 2^31 or more, converted to int
\* (the bytes_to_read parameter of SafeRead), is this negative value.
Int32Of(b) == IF b[4] >= 128 THEN -Magnitude(Complement(b)) - 1 ELSE Magnitude(b)

(***************************************************************************)
(* Values an uninitialized byte, enum or string tail may hold.             *)
(***************************************************************************)
GarbageBytes == {0, 1}
GarbageTails == {<<>>, <<63>>}
GarbageKinds == Kinds \cup {Indeterminate}

(***************************************************************************)
(* Serialization (child side).  An outcome is the bytes appended, or a     *)
(* crash of the serializing process.                                       *)
(***************************************************************************)
Bytes(b) == [crash |-> FALSE, bytes |-> b]
Crash == [crash |-> TRUE, bytes |-> <<>>]

\* SerializeString: int32_t s = strlen(str); append(&s, 4); append(str).
\* strlen(NULL) is undefined: the process crashes or a stray string is read.
SerializeString(str) ==
  IF str.isNull
    THEN {Crash} \cup {Bytes(Int32Bytes(Len(g)) \o g) : g \in GarbageTails}
    ELSE {Bytes(Int32Bytes(Len(str.chars)) \o str.chars)}

\* The type indicator; nothing is appended for a type that is none of the three.
TypeIndicator(type) ==
  CASE type = "kSuccess" -> <<kTypeSuccess>>
    [] type = "kNonFatalFailure" -> <<kTypeNonFatalFailure>>
    [] type = "kFatalFailure" -> <<kTypeFatalFailure>>
    [] OTHER -> <<>>

SerializeTestPartResult(result) ==
  { IF f.crash \/ m.crash THEN Crash
    ELSE Bytes(TypeIndicator(result.type) \o f.bytes
               \o Int32Bytes(result.line_number) \o m.bytes) :
      f \in SerializeString(result.file_name),
      m \in SerializeString(result.message) }

\* TestRunnerImpl::ReportTestPartResult: "R" and the serialized result.
ReportMessage(result) ==
  { IF o.crash THEN Crash ELSE Bytes(<<kTestRunnerTestPartResult>> \o o.bytes) :
      o \in SerializeTestPartResult(result) }

(***************************************************************************)
(* Reading (parent side).                                                  *)
(***************************************************************************)
\* posix::Read(fd, buf, n) on a pipe holding stream: up to n bytes.  A negative
\* n (a count above SSIZE_MAX) fails with -1 and reads nothing.
PosixRead(stream, n) ==
  IF n < 0 THEN [n |-> -1, bytes |-> <<>>, rest |-> stream]
  ELSE LET k == Min(n, Len(stream))
       IN  [n |-> k, bytes |-> SubSeq(stream, 1, k),
            rest |-> SubSeq(stream, k + 1, Len(stream))]

\* A read of n bytes returns at once when n <= 0, when bytes are there, or at
\* end of stream (no write end open); otherwise it blocks.
CanRead(stream, eof, n) == n <= 0 \/ stream # <<>> \/ eof

\* SafeRead: one posix::Read (repeated only after EINTR).  total_bytes_read is
\* returned: the count read, also when it is less than bytes_to_read, and 0
\* when the read failed.
SafeRead(stream, bytes_to_read) ==
  LET got == PosixRead(stream, bytes_to_read)
  IN  IF got.n < 0 THEN [got EXCEPT !.n = 0] ELSE got

\* The contents of a buffer of n bytes of which only the first were written.
Unwritten(n) == [1..n -> GarbageBytes]

(***************************************************************************)
(* The reader of the parent: the loop of ReadAndInterpretStatusByte and    *)
(* the reads of ExtractTestPartResultFromStream, one read per step.        *)
(* r.pos is the read the parent is about to do, the other fields are the   *)
(* locals read so far.                                                     *)
(***************************************************************************)
RdInit == [pos |-> "Frame", type |-> "none", file |-> <<>>, line |-> 0, size |-> 0]

NoResult == [type |-> "none", file_name |-> NullStr, line_number |-> 0,
             message |-> NullStr]

\* The fatal failure that stands for a child that died.
ProcessDiedFailure ==
  [type |-> "kFatalFailure", file_name |-> NullStr, line_number |-> -1,
   message |-> Str(<<100, 105, 101, 100>>)]

\* bytes_to_read of the read at r.pos.
ReadCount(r) ==
  CASE r.pos \in {"Frame", "Type"} -> 1
    [] r.pos \in {"FSize", "Line", "MSize"} -> 4
    [] r.pos \in {"FData", "MData"} -> r.size

\* The step ends the extraction with a return value <= 0, or the loop goes on.
Back(rest, ev) == [r |-> RdInit, rest |-> rest, ev |-> ev, reported |-> <<>>]
Goes(r, rest) == [r |-> r, rest |-> rest, ev |-> "none", reported |-> <<>>]

\* type_flag to type; type stays unassigned for any other flag.
TypeOfFlag(type_flag) ==
  CASE type_flag = kTypeSuccess -> {"kSuccess"}
    [] type_flag = kTypeNonFatalFailure -> {"kNonFatalFailure"}
    [] type_flag = kTypeFatalFailure -> {"kFatalFailure"}
    [] OTHER -> GarbageKinds

\* ExtractStringFromStream, first read: uint32_t size, uninitialized where the
\* read was short.
ExtractSizes(got) ==
  {Int32Of(got.bytes \o g) : g \in Unwritten(4 - got.n)}

\* ExtractStringFromStream, second read into new char[size + 1]:
\* buffer[size] = 0; data->assign(buffer).
ExtractChars(got, size) ==
  IF got.n = size \/ HasNul(got.bytes) THEN {TruncAtNul(got.bytes)}
  ELSE {got.bytes \o g : g \in GarbageTails}

\* One read of the parent on a pipe that holds stream.  The possible results:
\* the reader after the read, the bytes left, the results handed to the
\* result reporter, and what the loop does:
\*   "none"       nothing yet             "report"   a result is handed on
\*   "dropped"    the extraction returned a value <= 0
\*   "died" "exited" "internal_error" "unexpected": the cases of the loop.
ReaderSteps(r, stream) ==
  LET got == IF r.pos = "Frame" THEN PosixRead(stream, 1)
             ELSE SafeRead(stream, ReadCount(r))
  IN
  CASE r.pos = "Frame" ->
         IF got.n = 0 THEN {Back(stream, "died")}
         ELSE LET flag == got.bytes[1] IN
              CASE flag = kTestRunnerTestPartResult ->
                     {Goes([RdInit EXCEPT !.pos = "Type"], got.rest)}
                [] flag = kTestRunnerExited -> {Back(got.rest, "exited")}
                [] flag = kTestRunnerInternalError ->
                     {Back(got.rest, "internal_error")}
                [] OTHER -> {Back(got.rest, "unexpected")}
    [] r.pos = "Type" ->
         IF got.n <= 0 THEN {Back(got.rest, "dropped")}
         ELSE {Goes([r EXCEPT !.pos = "FSize", !.type = t], got.rest) :
                 t \in TypeOfFlag(got.bytes[1])}
    [] r.pos = "FSize" ->
         IF got.n <= 0 THEN {Back(got.rest, "dropped")}
         ELSE {Goes([r EXCEPT !.pos = "FData", !.size = s], got.rest) :
                 s \in ExtractSizes(got)}
    [] r.pos = "FData" ->
         IF got.n <= 0 THEN {Back(got.rest, "dropped")}
         ELSE {Goes([r EXCEPT !.pos = "Line", !.file = c, !.size = 0], got.rest) :
                 c \in ExtractChars(got, r.size)}
    [] r.pos = "Line" ->
         IF got.n <= 0 THEN {Back(got.rest, "dropped")}
         ELSE {Goes([r EXCEPT !.pos = "MSize",
                              !.line = Int32Of(got.bytes \o [i \in 1..(4 - got.n) |-> 0])],
                    got.rest)}
    [] r.pos = "MSize" ->
         IF got.n <= 0 THEN {Back(got.rest, "dropped")}
         ELSE {Goes([r EXCEPT !.pos = "MData", !.size = s], got.rest) :
                 s \in ExtractSizes(got)}
    [] r.pos = "MData" ->
         IF got.n <= 0 THEN {Back(got.rest, "dropped")}
         ELSE {[r |-> RdInit, rest |-> got.rest, ev |-> "report",
                reported |-> << [type |-> r.type, file_name |-> Str(r.file),
                                 line_number |-> r.line, message |-> Str(c)] >>] :
                 c \in ExtractChars(got, r.size)}


\* The read at r.pos gets all its bytes from stream, whatever is written to
\* the pipe later (a read of no bytes returns at once).
Served(r, stream) == ReadCount(r) <= Len(stream)

\* The reads of the parent from outcome o on, as long as the loop goes on and
\* the next read is served by the bytes that are in the pipe.  Reads that are
\* served do not depend on what the child does meanwhile: they are one step.
RECURSIVE ReaderRuns(_)
ReaderRuns(o) ==
  IF o.ev \in {"none", "dropped", "report"} /\ Served(o.r, o.rest)
    THEN UNION { ReaderRuns([n EXCEPT !.reported = o.reported \o n.reported]) :
                   n \in ReaderSteps(o.r, o.rest) }
    ELSE {o}

\* The next read, served or not, and the served reads that follow it.
ReaderRunsFrom(r, stream) == UNION { ReaderRuns(q) : q \in ReaderSteps(r, stream) }

(***************************************************************************)
(* State.                                                                  *)
(***************************************************************************)
VARIABLES
  flags,          \* the flags of the run: test_runner_style, crash_safe, repeat
  internal_flag,  \* per process: write_fd of its InternalTestRunnerFlag, or NoFlag
  pc,             \* per process: where it is
  runner,         \* per process: the fields of its current test runner
  unit,           \* per process: the test unit it is at
  iter,           \* per process: the iteration of the run it is in
  filter,         \* per process: the units its filter flag selects
  exit_status,    \* per process: the wait status it ended with
  diag,           \* per process: the diagnostic it aborted with
  pipe,           \* the bytes in the pipe
  rdHolders,      \* the processes that hold the read end open
  wrHolders,      \* the processes that hold the write end open
  rd,             \* the reader of the parent
  sink,           \* results the parent handed to its result reporter (this unit)
  emitted,        \* the results written to the pipe, in order
  exited_at,      \* Len(emitted) when the first Exited marker was written, or -1
  bodyRuns,       \* per process: executions of a test body since the last spawn
  codec,          \* the serialization round trip (SpecCodec only)
  returned,       \* per process: what its last call of Wait or ProcessOutcome
                  \* returned, "none" once the caller has gone on
  recorded,       \* per process: results handed to the original reporter
  props,          \* property events and clears: sent by the child, seen by
                  \* the parent (this unit)
  failed_writes,  \* per process: a posix::Write of the process has failed
  torn,           \* bytes that got into the pipe from the write during which
                  \* the child was killed, 0 when there was no such write
  argv_flag,      \* per process: the characters of the value of
                  \* --gtest_internal_test_runner on its command line
  safe_read,      \* one call of SafeRead (SpecSafeRead only)
  child_main,     \* the steps of one ExecTestRunnerChildMain (SpecChildMain
                  \* only)
  win,            \* the handles of a WindowsTestRunner and its event
                  \* (SpecHandshake only)
  spawn           \* how children are created: GTEST_HAS_CLONE of the build,
                  \* the two use-fork flags, and the call that made the
                  \* last child

vars == << flags, internal_flag, pc, runner, unit, iter, filter, exit_status,
           diag, pipe, rdHolders, wrHolders, rd, sink, emitted, exited_at,
           bodyRuns, codec, returned, recorded, safe_read, spawn, child_main, win,
           argv_flag, torn, props, failed_writes >>

Procs == {"parent", "child"}
Units == 1..NumUnits
Styles == {"fast", "threadsafe"}

\* The build and the flags that ExecTestRunnerSpawnChild looks at, and the
\* call that created the last child ("none" before the first).
SpawnConfigs ==
  [has_clone : BOOLEAN, test_runner_use_fork : BOOLEAN,
   death_test_use_fork : BOOLEAN, primitive : {"none"}]

\* A build with clone(2) and both flags at their default, false.
SpawnDefault ==
  [has_clone |-> TRUE, test_runner_use_fork |-> FALSE,
   death_test_use_fork |-> FALSE, primitive |-> "none"]

\* ExecTestRunnerSpawnChild: with GTEST_HAS_CLONE, use_fork is
\* GTEST_FLAG(death_test_use_fork) and clone is called when it is false;
\* without, use_fork is true; fork is called when use_fork.
ExecTestRunnerSpawnChild(s) ==
  LET use_fork == IF s.has_clone THEN s.death_test_use_fork ELSE TRUE
  IN  IF use_fork THEN "fork" ELSE "clone"

\* No call of ExecTestRunnerChildMain is being followed.
ChildMainIdle == [pc |-> "Off", calls |-> <<>>, failed |-> ""]

\* No WindowsTestRunner has created a pipe: write_handle_, event_handle_ and
\* child_handle_ hold nothing, the event is not signalled.
WinIdle ==
  [write_handle_ |-> FALSE, event_handle_ |-> FALSE, child_handle_ |-> FALSE,
   event |-> FALSE]

\* ParseInternalTestRunnerFlag returns NULL.
NoFlag == -1
\* pipe(pipe_fd): the read end and the write end.
PipeFd == << 3, 4 >>
\* The descriptor named by an internal flag that the first process was given.
InheritedFds == {9}

\* Characters of a flag value: the separator '|', a letter, the digit '0'.
kBar == 124
kLetter == 120
kZero == 48

\* String::Format("%d", n) of a natural number: its decimal digits.
RECURSIVE Decimal(_)
Decimal(n) ==
  IF n < 10 THEN <<kZero + n>> ELSE Decimal(n \div 10) \o <<kZero + (n % 10)>>

\* ExecTestRunner::AssumeRole: the value of the internal flag that is put on
\* the command line of the child, "%d" of pipe_fd[1].
FormatInternalFlag(write_fd) == Decimal(write_fd)

\* SplitString(str, delimiter, &fields): the parts of str between the
\* delimiters, one part more than there are delimiters.
RECURSIVE SplitString(_, _)
SplitString(str, delimiter) ==
  IF \A i \in 1..Len(str) : str[i] # delimiter THEN <<str>>
  ELSE LET at == CHOOSE i \in 1..Len(str) :
                   /\ str[i] = delimiter
                   /\ \A j \in 1..(i - 1) : str[j] # delimiter
       IN  <<SubSeq(str, 1, at - 1)>>
             \o SplitString(SubSeq(str, at + 1, Len(str)), delimiter)

IsDigit(c) == c \in kZero..(kZero + 9)

\* The number that a sequence of digits is the decimal text of.
RECURSIVE DecimalValue(_)
DecimalValue(str) ==
  IF str = <<>> THEN 0
  ELSE 10 * DecimalValue(SubSeq(str, 1, Len(str) - 1)) + (str[Len(str)] - kZero)

\* ParseNaturalNumber(str, &number): false for a text that is empty or has
\* a character that is no digit (the texts of the model are short: no
\* overflow).
ParseNaturalNumber(str) ==
  IF str # <<>> /\ \A i \in 1..Len(str) : IsDigit(str[i])
    THEN [ok |-> TRUE, number |-> DecimalValue(str)]
    ELSE [ok |-> FALSE, number |-> 0]

\* A ParseInternalTestRunnerFlag that takes a value of more than two fields.
ParseInternalTestRunnerFlagOfManyFields(text) ==
  IF text = <<>> THEN [how |-> "NULL", write_fd |-> NoFlag]
  ELSE LET fields == SplitString(text, kBar)
       IN  IF Len(fields) < 2 \/ ~ParseNaturalNumber(fields[2]).ok
             THEN [how |-> "abort", write_fd |-> NoFlag]
             ELSE [how |-> "flag",
                   write_fd |-> ParseNaturalNumber(fields[2]).number]

\* ParseInternalTestRunnerFlag (not Windows) for the flag value text: NULL
\* for the empty text, TestRunnerAbort unless there are two fields and the
\* second is a natural number, else a flag with that number as write_fd.
ParseInternalTestRunnerFlag(text) ==
  IF text = <<>> THEN [how |-> "NULL", write_fd |-> NoFlag]
  ELSE LET fields == SplitString(text, kBar)
       IN  IF Len(fields) # 2 \/ ~ParseNaturalNumber(fields[2]).ok
             THEN [how |-> "abort", write_fd |-> NoFlag]
             ELSE [how |-> "flag",
                   write_fd |-> ParseNaturalNumber(fields[2]).number]

\* The internal flag values the first process is started with: none, a
\* value with two fields that names an inherited descriptor, and the bare
\* number of one.
FlagTexts ==
  {<<>>} \cup {<<kLetter, kBar>> \o Decimal(fd) : fd \in InheritedFds}
         \cup {Decimal(fd) : fd \in InheritedFds}
\* No property event or clear was sent or seen.
NoProps == [sent |-> <<>>, seen |-> <<>>]
\* What a call of the runner returned to the test loop.
NoReturn == [call |-> "none", status |-> -1, ok |-> FALSE]
WaitReturned(status) == [call |-> "Wait", status |-> status, ok |-> FALSE]
ProcessOutcomeReturned(ok) == [call |-> "ProcessOutcome", status |-> -1, ok |-> ok]

\* TestRunnerImpl::TestRunnerImpl; child_pid_ is set by set_child_pid only.
NewRunner(kind) ==
  [kind |-> kind, spawned |-> FALSE, status |-> -1, outcome |-> "TEST_IN_PROGRESS",
   read_fd |-> -1, write_fd |-> -1, child_pid |-> -1]

NoRunner == NewRunner("none")

\* Wait statuses: exit(0), _exit(1), killed by SIGSEGV, SIGABRT, SIGPIPE.
WaitStatus == [exit0 |-> 0, exit1 |-> 256, segv |-> 11, abort |-> 6, pipe |-> 13]
\* The ways test code ends its process other than by returning: a signal, exit(0).
DeathStatuses == {WaitStatus.segv, WaitStatus.exit0}

Terminated(p) == pc[p] \in {"Exited", "Killed", "Aborted", "Done"}

\* The test part results a test body may report: one of each kind with a file
\* name and a message, one with an empty message, and two with an empty file
\* name, whose line numbers begin with the byte 'E' and with a byte that is
\* no status byte.
Result(type, file, line, text) ==
  [type |-> type, file_name |-> Str(file), line_number |-> line,
   message |-> Str(text)]
Results ==
  {Result(k, <<97>>, 7, <<109>>) : k \in Kinds}
    \cup {Result("kNonFatalFailure", <<97>>, 7, <<>>),
          Result("kNonFatalFailure", <<>>, 69, <<109>>),
          Result("kSuccess", <<>>, 7, <<109>>)}

\* A call of SafeRead(read_fd, output, bytes_to_read): where it is, its
\* parameter and locals, the bytes the peer has yet to write, the EINTR
\* returns of posix::Read so far, and whether posix::Read failed with
\* another error.
SafeReadIdle ==
  [pc |-> "Off", bytes_to_read |-> 0, total_bytes_read |-> 0, output |-> <<>>,
   later |-> <<>>, interrupts |-> 0, failed |-> FALSE]

\* The round trip of SpecCodec: where it is, the result that is serialized,
\* the bytes it was serialized to, the result that was extracted.
CodecIdle == [pc |-> "Off", input |-> NoResult, encoded |-> <<>>,
              output |-> NoResult]

(***************************************************************************)
(* The test loop that calls the runner (modelled from the specification).  *)
(***************************************************************************)
\* After a unit: the next selected unit, the next iteration, or the end of main.
Advance(p) ==
  LET later == {u \in filter[p] : u > unit[p]}
      least(S) == CHOOSE u \in S : \A v \in S : u <= v
  IN  IF later # {} THEN [pc |-> "Create", unit |-> least(later), iter |-> iter[p]]
      ELSE IF iter[p] < flags.repeat
             THEN [pc |-> "Create", unit |-> least(filter[p]), iter |-> iter[p] + 1]
             ELSE [pc |-> "Done", unit |-> unit[p], iter |-> iter[p]]

Init ==
  /\ flags \in [test_runner_style : Styles, crash_safe : BOOLEAN,
                repeat : 1..MaxRepeat]
  /\ internal_flag = [p \in Procs |-> NoFlag]
  /\ pc = [parent |-> "Start", child |-> "None"]
  /\ runner = [p \in Procs |-> NoRunner]
  /\ unit = [p \in Procs |-> 1]
  /\ iter = [p \in Procs |-> 1]
  /\ filter = [p \in Procs |-> Units]
  /\ exit_status = [p \in Procs |-> -1]
  /\ diag = [p \in Procs |-> ""]
  /\ pipe = <<>>
  /\ rdHolders = {}
  /\ wrHolders = {}
  /\ rd = RdInit
  /\ sink = <<>>
  /\ emitted = <<>>
  /\ exited_at = -1
  /\ bodyRuns = [p \in Procs |-> 0]
  /\ codec = CodecIdle
  /\ returned = [p \in Procs |-> NoReturn]
  /\ recorded = [p \in Procs |-> <<>>]
  /\ props = NoProps
  /\ failed_writes = [p \in Procs |-> FALSE]
  /\ torn = 0
  /\ safe_read = SafeReadIdle
  /\ child_main = ChildMainIdle
  /\ win = WinIdle
  /\ spawn = SpawnDefault
  /\ argv_flag \in {[parent |-> t, child |-> <<>>] : t \in FlagTexts}

(***************************************************************************)
(* Process ends.                                                           *)
(***************************************************************************)
\* The descriptors of a process are closed when it ends.
Without(S, p) == S \ {p}

\* Process p ends at pc value how, with wait status st and diagnostic d.
Ends(p, how, st, d) ==
  /\ pc' = [pc EXCEPT ![p] = how]
  /\ exit_status' = [exit_status EXCEPT ![p] = st]
  /\ diag' = [diag EXCEPT ![p] = d]
  /\ rdHolders' = Without(rdHolders, p)
  /\ wrHolders' = Without(wrHolders, p)

\* posix::Write(write_fd(), data) of process p.  The bytes go into the pipe
\* when write_fd is its write end; a write to a pipe that no process reads
\* raises SIGPIPE; a write to another descriptor is not followed.
IntoPipe(p) == runner[p].write_fd = PipeFd[2] /\ p \in wrHolders
Sigpipe(p) == IntoPipe(p) /\ rdHolders = {}

\* The results of posix::Write(write_fd(), ...) of process p, TRUE for a
\* failure.  A write to the pipe does not fail; a descriptor named by a flag
\* that the first process was given may be open or closed in the process,
\* and the write to a closed one fails (EBADF).
WriteFails(p) ==
  IF runner[p].write_fd # -1 /\ ~IntoPipe(p) THEN BOOLEAN ELSE {FALSE}

\* The result of a posix::Write is not looked at: the process goes on.
IgnoredWrite(p) ==
  \E fails \in WriteFails(p) :
    failed_writes' = [failed_writes EXCEPT ![p] = @ \/ fails]

\* GTEST_LOG_(FATAL): the diagnostic is logged and the process aborts.
LogFatal(p, message) == Ends(p, "Aborted", WaitStatus.abort, message)

\* The diagnostics that TestRunnerAbort is called with and two short texts,
\* each with its characters: what fprintf(parent, "%s", message.c_str())
\* writes for the text.
Diagnostics ==
  {
    [text |-> "Bad --gtest_internal_test_runner flag",
     chars |->
       << 66, 97, 100, 32, 45, 45, 103, 116, 101, 115, 116, 95, 105, 110,
          116, 101, 114, 110, 97, 108, 95, 116, 101, 115, 116, 95, 114,
          117, 110, 110, 101, 114, 32, 102, 108, 97, 103 >>],
    [text |-> "chdir or execve failed",
     chars |->
       << 99, 104, 100, 105, 114, 32, 111, 114, 32, 101, 120, 101, 99, 118,
          101, 32, 102, 97, 105, 108, 101, 100 >>],
    [text |-> "CHECK failed: write_fd() != -1",
     chars |->
       << 67, 72, 69, 67, 75, 32, 102, 97, 105, 108, 101, 100, 58, 32, 119,
          114, 105, 116, 101, 95, 102, 100, 40, 41, 32, 33, 61, 32, 45, 49 >>],
    [text |-> "CHECK failed: close(args->close_fd) != -1",
     chars |->
       << 67, 72, 69, 67, 75, 32, 102, 97, 105, 108, 101,
          100, 58, 32, 99, 108, 111, 115, 101, 40, 97, 114,
          103, 115, 45, 62, 99, 108, 111, 115, 101, 95, 102,
          100, 41, 32, 33, 61, 32, 45, 49 >>],
    [text |-> "x4",
     chars |->
       << 120, 52 >>],
    [text |-> "x",
     chars |->
       << 120 >>]
  }

\* message.c_str() as characters.
MessageChars(message) == (CHOOSE t \in Diagnostics : t.text = message).chars

\* The text that a sequence of characters read from the pipe spells; a
\* sequence that is no text of the table is shown by its character codes.
TextOf(chars) ==
  IF \E t \in Diagnostics : t.chars = chars
    THEN (CHOOSE t \in Diagnostics : t.chars = chars).text
    ELSE ToString(chars)

\* TestRunnerAbort: with an internal flag the message goes to the flag's
\* descriptor after 'I' and the process exits with 1; without one the message
\* is printed and the process aborts.
TestRunnerAbort(p, message) ==
  IF internal_flag[p] # NoFlag
    THEN /\ Ends(p, "Exited", WaitStatus.exit1, message)
         /\ pipe' = IF internal_flag[p] = PipeFd[2] /\ p \in wrHolders
                      THEN pipe \o <<kTestRunnerInternalError>>
                                \o MessageChars(message)
                      ELSE pipe
    ELSE /\ Ends(p, "Aborted", WaitStatus.abort, message)
         /\ pipe' = pipe

(***************************************************************************)
(* TestRunner::Create and AssumeRole.                                      *)
(***************************************************************************)
\* A factory that takes every style other than "threadsafe" for "fast".
DefaultTestRunnerFactoryCreateFastByDefault(style) ==
  IF style = "threadsafe" THEN [ok |-> TRUE, kind |-> "ExecTestRunner"]
  ELSE [ok |-> TRUE, kind |-> "NoExecTestRunner"]

\* DefaultTestRunnerFactory::Create (not Windows): the runner for the style
\* flag, or false.  The crash_safe flag is not read.
DefaultTestRunnerFactoryCreate(style) ==
  IF style = "threadsafe" THEN [ok |-> TRUE, kind |-> "ExecTestRunner"]
  ELSE IF style = "fast" THEN [ok |-> TRUE, kind |-> "NoExecTestRunner"]
  ELSE [ok |-> FALSE, kind |-> "none"]

\* The program starts: the flags are parsed and the internal flag of the
\* process is set from ParseInternalTestRunnerFlag, which aborts for a bad
\* value (no flag object is there yet: the message is printed).
PostFlagParsingInit(p) ==
  /\ pc[p] = "Start"
  /\ LET parsed == ParseInternalTestRunnerFlag(argv_flag[p])
     IN  IF parsed.how = "abort"
           THEN /\ TestRunnerAbort(p, "Bad --gtest_internal_test_runner flag")
                /\ UNCHANGED internal_flag
           ELSE /\ internal_flag' = [internal_flag EXCEPT ![p] = parsed.write_fd]
                /\ pc' = [pc EXCEPT ![p] = "Create"]
                /\ UNCHANGED << exit_status, diag, pipe, rdHolders, wrHolders >>
  /\ UNCHANGED << flags, runner, unit, iter, filter, rd, sink, emitted,
                  exited_at, bodyRuns, codec,
                  returned, recorded, safe_read, spawn, child_main, win, argv_flag, torn, props, failed_writes >>

\* The test loop creates the runner of the next unit.
Create(p) ==
  /\ pc[p] = "Create"
  /\ LET made == DefaultTestRunnerFactoryCreate(flags.test_runner_style)
     IN  /\ made.ok
         /\ runner' = [runner EXCEPT ![p] = NewRunner(made.kind)]
  /\ pc' = [pc EXCEPT ![p] = "AssumeRole"]
  /\ returned' = [returned EXCEPT ![p] = NoReturn]
  /\ UNCHANGED << flags, internal_flag, unit, iter, filter, exit_status, diag,
                  pipe, rdHolders, wrHolders, rd, sink, emitted, exited_at,
                  bodyRuns, codec,
                  recorded, safe_read, spawn, child_main, win, argv_flag, torn, props, failed_writes >>

\* TestRunner::Create when the factory returns false: *test is not assigned,
\* no message is set and the process goes on in the caller.
CreateFails(p) ==
  /\ pc[p] = "Create"
  /\ ~DefaultTestRunnerFactoryCreate(flags.test_runner_style).ok
  /\ pc' = [pc EXCEPT ![p] = "CreateFailed"]
  /\ UNCHANGED << flags, internal_flag, runner, unit, iter, filter, exit_status,
                  diag, pipe, rdHolders, wrHolders, rd, sink, emitted,
                  exited_at, bodyRuns, codec,
                  returned, recorded, safe_read, spawn, child_main, win, argv_flag, torn, props, failed_writes >>

\* ExecTestRunner::AssumeRole with an internal flag: EXECUTE_TEST.
AssumeRoleWithFlag(p) ==
  /\ pc[p] = "AssumeRole"
  /\ runner[p].kind = "ExecTestRunner"
  /\ internal_flag[p] # NoFlag
  /\ runner' = [runner EXCEPT ![p].write_fd = internal_flag[p]]
  /\ pc' = [pc EXCEPT ![p] = "SetUp"]
  /\ UNCHANGED << flags, internal_flag, unit, iter, filter, exit_status, diag,
                  pipe, rdHolders, wrHolders, rd, sink, emitted, exited_at,
                  bodyRuns, codec,
                  returned, recorded, safe_read, spawn, child_main, win, argv_flag, torn, props, failed_writes >>

\* A fork-and-exec AssumeRole whose child goes on with the test in the forked
\* image instead of calling ExecTestRunnerChildMain.
AssumeRoleSpawnRunsBody(p) ==
  /\ pc[p] = "AssumeRole"
  /\ p = "parent"
  /\ runner[p].kind = "ExecTestRunner"
  /\ internal_flag[p] = NoFlag
  /\ runner' = [runner EXCEPT
                  ![p] = [@ EXCEPT !.child_pid = 1, !.read_fd = PipeFd[1],
                                   !.spawned = TRUE],
                  !["child"] = [runner[p] EXCEPT !.write_fd = PipeFd[2]]]
  /\ pc' = [pc EXCEPT ![p] = "Wait", !["child"] = "SetUp"]
  /\ internal_flag' = [internal_flag EXCEPT !["child"] = internal_flag[p]]
  /\ unit' = [unit EXCEPT !["child"] = unit[p]]
  /\ iter' = [iter EXCEPT !["child"] = iter[p]]
  /\ filter' = [filter EXCEPT !["child"] = filter[p]]
  /\ exit_status' = [exit_status EXCEPT !["child"] = -1]
  /\ diag' = [diag EXCEPT !["child"] = ""]
  /\ pipe' = <<>>
  /\ rdHolders' = {p}
  /\ wrHolders' = {"child"}
  /\ rd' = RdInit
  /\ emitted' = <<>>
  /\ exited_at' = -1
  /\ bodyRuns' = [q \in Procs |-> 0]
  /\ props' = NoProps
  /\ torn' = 0
  /\ spawn' = [spawn EXCEPT !.primitive = ExecTestRunnerSpawnChild(spawn)]
  /\ argv_flag' = [argv_flag EXCEPT !["child"] = argv_flag[p]]
  /\ UNCHANGED << flags, sink, codec,
                  returned, recorded, safe_read, child_main, win,
                  failed_writes >>

\* ExecTestRunner::AssumeRole without a flag: pipe, ExecTestRunnerSpawnChild,
\* close(pipe_fd[1]); OVERSEE_TEST.  The child starts in
\* ExecTestRunnerChildMain with a copy of the parent's memory.
AssumeRoleSpawn(p) ==
  /\ pc[p] = "AssumeRole"
  /\ p = "parent"
  /\ runner[p].kind = "ExecTestRunner"
  /\ internal_flag[p] = NoFlag
  /\ runner' = [runner EXCEPT
                  ![p] = [@ EXCEPT !.child_pid = 1, !.read_fd = PipeFd[1],
                                   !.spawned = TRUE],
                  !["child"] = runner[p]]
  /\ pc' = [pc EXCEPT ![p] = "Wait", !["child"] = "ChildMain"]
  /\ internal_flag' = [internal_flag EXCEPT !["child"] = internal_flag[p]]
  /\ unit' = [unit EXCEPT !["child"] = unit[p]]
  /\ iter' = [iter EXCEPT !["child"] = iter[p]]
  /\ filter' = [filter EXCEPT !["child"] = filter[p]]
  /\ exit_status' = [exit_status EXCEPT !["child"] = -1]
  /\ diag' = [diag EXCEPT !["child"] = ""]
  /\ pipe' = <<>>
  /\ rdHolders' = {p, "child"}
  /\ wrHolders' = {"child"}
  /\ rd' = RdInit
  /\ emitted' = <<>>
  /\ exited_at' = -1
  /\ bodyRuns' = [q \in Procs |-> 0]
  /\ props' = NoProps
  /\ torn' = 0
  /\ spawn' = [spawn EXCEPT !.primitive = ExecTestRunnerSpawnChild(spawn)]
  /\ argv_flag' = [argv_flag EXCEPT !["child"] = argv_flag[p]]
  /\ UNCHANGED << flags, sink, codec,
                  returned, recorded, safe_read, child_main, win,
                  failed_writes >>

\* A fork-and-run AssumeRole whose child does not close pipe_fd[0].
AssumeRoleForkKeepsReadEnd(p) ==
  /\ pc[p] = "AssumeRole"
  /\ p = "parent"
  /\ runner[p].kind = "NoExecTestRunner"
  /\ runner' = [runner EXCEPT
                  ![p] = [@ EXCEPT !.child_pid = 1, !.read_fd = PipeFd[1],
                                   !.spawned = TRUE],
                  !["child"] = [runner[p] EXCEPT !.child_pid = 0,
                                                 !.write_fd = PipeFd[2]]]
  /\ pc' = [pc EXCEPT ![p] = "Wait", !["child"] = "SetUp"]
  /\ internal_flag' = [internal_flag EXCEPT !["child"] = internal_flag[p]]
  /\ unit' = [unit EXCEPT !["child"] = unit[p]]
  /\ iter' = [iter EXCEPT !["child"] = iter[p]]
  /\ filter' = [filter EXCEPT !["child"] = filter[p]]
  /\ exit_status' = [exit_status EXCEPT !["child"] = -1]
  /\ diag' = [diag EXCEPT !["child"] = ""]
  /\ pipe' = <<>>
  /\ rdHolders' = {p, "child"}
  /\ wrHolders' = {"child"}
  /\ rd' = RdInit
  /\ emitted' = <<>>
  /\ exited_at' = -1
  /\ bodyRuns' = [q \in Procs |-> 0]
  /\ props' = NoProps
  /\ torn' = 0
  /\ spawn' = [spawn EXCEPT !.primitive = "fork"]
  /\ argv_flag' = [argv_flag EXCEPT !["child"] = argv_flag[p]]
  /\ UNCHANGED << flags, sink, codec,
                  returned, recorded, safe_read, child_main, win,
                  failed_writes >>

\* NoExecTestRunner::AssumeRole: pipe, fork; the child closes the read end and
\* is EXECUTE_TEST, the parent closes the write end and is OVERSEE_TEST.  The
\* internal flag is not read.
AssumeRoleFork(p) ==
  /\ pc[p] = "AssumeRole"
  /\ p = "parent"
  /\ runner[p].kind = "NoExecTestRunner"
  /\ runner' = [runner EXCEPT
                  ![p] = [@ EXCEPT !.child_pid = 1, !.read_fd = PipeFd[1],
                                   !.spawned = TRUE],
                  !["child"] = [runner[p] EXCEPT !.child_pid = 0,
                                                 !.write_fd = PipeFd[2]]]
  /\ pc' = [pc EXCEPT ![p] = "Wait", !["child"] = "SetUp"]
  /\ internal_flag' = [internal_flag EXCEPT !["child"] = internal_flag[p]]
  /\ unit' = [unit EXCEPT !["child"] = unit[p]]
  /\ iter' = [iter EXCEPT !["child"] = iter[p]]
  /\ filter' = [filter EXCEPT !["child"] = filter[p]]
  /\ exit_status' = [exit_status EXCEPT !["child"] = -1]
  /\ diag' = [diag EXCEPT !["child"] = ""]
  /\ pipe' = <<>>
  /\ rdHolders' = {p}
  /\ wrHolders' = {"child"}
  /\ rd' = RdInit
  /\ emitted' = <<>>
  /\ exited_at' = -1
  /\ bodyRuns' = [q \in Procs |-> 0]
  /\ props' = NoProps
  /\ torn' = 0
  /\ spawn' = [spawn EXCEPT !.primitive = "fork"]
  /\ argv_flag' = [argv_flag EXCEPT !["child"] = argv_flag[p]]
  /\ UNCHANGED << flags, sink, codec,
                  returned, recorded, safe_read, child_main, win,
                  failed_writes >>

\* An ExecTestRunnerChildMain whose arguments lack the internal flag.
ChildMainExecWithoutFlag(p) ==
  /\ pc[p] = "ChildMain"
  /\ rdHolders' = Without(rdHolders, p)
  /\ argv_flag' = [argv_flag EXCEPT ![p] = <<>>]
  /\ internal_flag' = [internal_flag EXCEPT ![p] = NoFlag]
  /\ filter' = [filter EXCEPT ![p] = {unit[p]}]
  /\ iter' = [iter EXCEPT ![p] = 1]
  /\ runner' = [runner EXCEPT ![p] = NoRunner]
  /\ pc' = [pc EXCEPT ![p] = "Start"]
  /\ UNCHANGED << flags, unit, exit_status, diag, pipe, wrHolders, rd, sink,
                  emitted, exited_at, bodyRuns, codec,
                  returned, recorded, safe_read, spawn, child_main, win, torn, props, failed_writes >>

\* ExecTestRunnerChildMain: close(close_fd), chdir, execve.  The new image
\* runs the program from the start with the arguments that AssumeRole put
\* together: the filter flag of the unit and the internal flag formatted
\* from the write end.
ChildMainExec(p) ==
  /\ pc[p] = "ChildMain"
  /\ rdHolders' = Without(rdHolders, p)
  /\ argv_flag' = [argv_flag EXCEPT ![p] = FormatInternalFlag(PipeFd[2])]
  /\ internal_flag' = [internal_flag EXCEPT ![p] = NoFlag]
  /\ filter' = [filter EXCEPT ![p] = {unit[p]}]
  /\ iter' = [iter EXCEPT ![p] = 1]
  /\ runner' = [runner EXCEPT ![p] = NoRunner]
  /\ pc' = [pc EXCEPT ![p] = "Start"]
  /\ UNCHANGED << flags, unit, exit_status, diag, pipe, wrHolders, rd, sink,
                  emitted, exited_at, bodyRuns, codec,
                  returned, recorded, safe_read, spawn, child_main, win, torn, props, failed_writes >>

\* ExecTestRunnerChildMain when chdir or execve fails: TestRunnerAbort.
ChildMainFail(p) ==
  /\ pc[p] = "ChildMain"
  /\ TestRunnerAbort(p, "chdir or execve failed")
  /\ UNCHANGED << flags, internal_flag, runner, unit, iter, filter, rd, sink,
                  emitted, exited_at, bodyRuns, codec,
                  returned, recorded, safe_read, spawn, child_main, win, argv_flag, torn, props, failed_writes >>

(***************************************************************************)
(* The executor: SetUp, the test body, the fixture's TearDown, TearDown.    *)
(***************************************************************************)
\* TestRunnerImpl::SetUp does nothing; the fixture is set up and the test
\* body starts.
SetUp(p) ==
  /\ pc[p] = "SetUp"
  /\ pc' = [pc EXCEPT ![p] = "Body"]
  /\ bodyRuns' = [bodyRuns EXCEPT ![p] = @ + 1]
  /\ UNCHANGED << flags, internal_flag, runner, unit, iter, filter, exit_status,
                  diag, pipe, rdHolders, wrHolders, rd, sink, emitted,
                  exited_at, codec,
                  returned, recorded, safe_read, spawn, child_main, win, argv_flag, torn, props, failed_writes >>

\* TestRunnerImpl::ReportTestPartResult, called for a result of the body.
ReportTestPartResult(p, result) ==
  /\ pc[p] = "Body"
  /\ Len(emitted) < MaxEmit
  /\ props.sent = <<>>
  /\ IF runner[p].write_fd = -1
       THEN /\ TestRunnerAbort(p, "CHECK failed: write_fd() != -1")
            /\ UNCHANGED << emitted, failed_writes >>
       ELSE \E data \in ReportMessage(result) :
              IF data.crash
                THEN /\ Ends(p, "Killed", WaitStatus.segv, "")
                     /\ UNCHANGED << pipe, emitted, failed_writes >>
              ELSE IF Sigpipe(p)
                THEN /\ Ends(p, "Killed", WaitStatus.pipe, "")
                     /\ UNCHANGED << pipe, emitted, failed_writes >>
              ELSE /\ pipe' = IF IntoPipe(p) THEN pipe \o data.bytes ELSE pipe
                   /\ emitted' = IF IntoPipe(p) THEN Append(emitted, result)
                                 ELSE emitted
                   /\ IgnoredWrite(p)
                   /\ UNCHANGED << pc, exit_status, diag, rdHolders, wrHolders >>
  /\ UNCHANGED << flags, internal_flag, runner, unit, iter, filter, rd, sink,
                  exited_at, bodyRuns, codec,
                  returned, recorded, safe_read, spawn, child_main, win, argv_flag, torn, props >>

\* RecordProperty and ClearCurrentTestPartResults are declared by TestRunner
\* and defined by no runner of the sources; the sending side is modelled from
\* the specification: a type byte and the two strings of the property, or a
\* type byte alone, written to write_fd like a test part result.
PropertyTypeBytes == {80}
ClearTypeBytes == {67}
Properties == {[key |-> Str(<<107>>), value |-> Str(<<118>>)]}
ClearEvent == [key |-> NullStr, value |-> NullStr]

PropertyMessage(event) ==
  IF event = ClearEvent
    THEN {Bytes(<<t>>) : t \in ClearTypeBytes}
    ELSE { IF k.crash \/ v.crash THEN Crash ELSE Bytes(<<t>> \o k.bytes \o v.bytes) :
             t \in PropertyTypeBytes, k \in SerializeString(event.key),
             v \in SerializeString(event.value) }

\* The child sends a property event or a clear.  The bodies of the model
\* report test part results or send properties and at last a clear, not both.
SendEvent(p, event) ==
  /\ pc[p] = "Body"
  /\ runner[p].write_fd # -1
  /\ Len(props.sent) < MaxProps
  /\ emitted = <<>>
  /\ ClearEvent \notin {props.sent[i] : i \in 1..Len(props.sent)}
  /\ \E data \in PropertyMessage(event) :
       IF data.crash
         THEN /\ Ends(p, "Killed", WaitStatus.segv, "")
              /\ UNCHANGED << pipe, props >>
       ELSE IF Sigpipe(p)
         THEN /\ Ends(p, "Killed", WaitStatus.pipe, "")
              /\ UNCHANGED << pipe, props >>
       ELSE /\ IntoPipe(p)
            /\ pipe' = pipe \o data.bytes
            /\ props' = [props EXCEPT !.sent = Append(@, event)]
            /\ UNCHANGED << pc, exit_status, diag, rdHolders, wrHolders >>
  /\ UNCHANGED << flags, internal_flag, runner, unit, iter, filter, rd, sink,
                  emitted, exited_at, bodyRuns, codec, returned, recorded, safe_read, spawn, child_main, win, argv_flag, torn, failed_writes >>

RecordProperty(p, property) ==
  /\ property # ClearEvent
  /\ SendEvent(p, property)

ClearCurrentTestPartResults(p) ==
  /\ pc[p] = "Body"
  /\ SendEvent(p, ClearEvent)

\* A result whose message does not fit into the pipe at once.
LongResults == {Result("kNonFatalFailure", <<97>>, 7, <<109>>)}

\* TestRunnerImpl::ReportTestPartResult when the process is killed inside
\* posix::Write: a message that does not fit into the pipe is written in
\* parts while the parent reads, and the bytes written before the signal
\* stay in the pipe.  The bytes of the model stand for such a message.
DieInWrite(p, result) ==
  /\ pc[p] = "Body"
  /\ Len(emitted) < MaxEmit
  /\ props.sent = <<>>
  /\ IntoPipe(p)
  /\ ~Sigpipe(p)
  /\ \E data \in ReportMessage(result) :
       /\ ~data.crash
       /\ \E written \in 1..(Len(data.bytes) - 1) :
            /\ pipe' = pipe \o SubSeq(data.bytes, 1, written)
            /\ torn' = written
  /\ Ends(p, "Killed", WaitStatus.segv, "")
  /\ UNCHANGED << flags, internal_flag, runner, unit, iter, filter, rd, sink,
                  emitted, exited_at, bodyRuns, codec,
                  returned, recorded, safe_read, spawn, child_main, win, argv_flag, props, failed_writes >>

\* The test code ends the process.
Die(p, st) ==
  /\ pc[p] \in {"SetUp", "Body", "FixtureTearDown"}
  /\ Ends(p, "Killed", st, "")
  /\ UNCHANGED << flags, internal_flag, runner, unit, iter, filter, pipe, rd,
                  sink, emitted, exited_at, bodyRuns, codec,
                  returned, recorded, safe_read, spawn, child_main, win, argv_flag, torn, props, failed_writes >>

\* The test body returns.
BodyReturns(p) ==
  /\ pc[p] = "Body"
  /\ pc' = [pc EXCEPT ![p] = "FixtureTearDown"]
  /\ UNCHANGED << flags, internal_flag, runner, unit, iter, filter, exit_status,
                  diag, pipe, rdHolders, wrHolders, rd, sink, emitted,
                  exited_at, bodyRuns, codec,
                  returned, recorded, safe_read, spawn, child_main, win, argv_flag, torn, props, failed_writes >>

\* The TearDown of the fixture returns.
FixtureTearDownReturns(p) ==
  /\ pc[p] = "FixtureTearDown"
  /\ pc' = [pc EXCEPT ![p] = "TearDown"]
  /\ UNCHANGED << flags, internal_flag, runner, unit, iter, filter, exit_status,
                  diag, pipe, rdHolders, wrHolders, rd, sink, emitted,
                  exited_at, bodyRuns, codec,
                  returned, recorded, safe_read, spawn, child_main, win, argv_flag, torn, props, failed_writes >>

\* TestRunnerImpl::TearDown: posix::Write(write_fd(), "E", 1).
WriteExited(p) ==
  /\ pipe' = IF IntoPipe(p) THEN pipe \o <<kTestRunnerExited>> ELSE pipe
  /\ exited_at' = IF IntoPipe(p) /\ exited_at = -1 THEN Len(emitted)
                  ELSE exited_at
  /\ IgnoredWrite(p)

\* A TearDown that sets the outcome in the process that ran the test.
TearDownNoExecSettingOutcome(p) ==
  /\ pc[p] = "TearDown"
  /\ runner[p].kind = "NoExecTestRunner"
  /\ IF Sigpipe(p)
       THEN /\ Ends(p, "Killed", WaitStatus.pipe, "")
            /\ UNCHANGED << pipe, exited_at, failed_writes >>
       ELSE /\ WriteExited(p)
            /\ Ends(p, "Exited", WaitStatus.exit0, "")
  /\ runner' = [runner EXCEPT ![p].outcome = "TEST_EXITED"]
  /\ UNCHANGED << flags, internal_flag, unit, iter, filter, rd, sink,
                  emitted, bodyRuns, codec,
                  returned, recorded, safe_read, spawn, child_main, win, argv_flag, torn, props >>

\* NoExecTestRunner::TearDown: TestRunnerImpl::TearDown(); exit(0).
TearDownNoExec(p) ==
  /\ pc[p] = "TearDown"
  /\ runner[p].kind = "NoExecTestRunner"
  /\ IF Sigpipe(p)
       THEN /\ Ends(p, "Killed", WaitStatus.pipe, "")
            /\ UNCHANGED << pipe, exited_at, failed_writes >>
       ELSE /\ WriteExited(p)
            /\ Ends(p, "Exited", WaitStatus.exit0, "")
  /\ UNCHANGED << flags, internal_flag, runner, unit, iter, filter, rd, sink,
                  emitted, bodyRuns, codec,
                  returned, recorded, safe_read, spawn, child_main, win, argv_flag, torn, props >>

\* ExecTestRunner has no TearDown of its own: TestRunnerImpl::TearDown writes
\* the marker and returns to the test loop, which goes on.
TearDownExec(p) ==
  /\ pc[p] = "TearDown"
  /\ runner[p].kind = "ExecTestRunner"
  /\ IF Sigpipe(p)
       THEN /\ Ends(p, "Killed", WaitStatus.pipe, "")
            /\ UNCHANGED << pipe, exited_at, unit, iter, failed_writes >>
       ELSE /\ WriteExited(p)
            /\ LET next == Advance(p)
               IN  /\ unit' = [unit EXCEPT ![p] = next.unit]
                   /\ iter' = [iter EXCEPT ![p] = next.iter]
                   /\ IF next.pc = "Done"
                        THEN Ends(p, "Done", WaitStatus.exit0, "")
                        ELSE /\ pc' = [pc EXCEPT ![p] = next.pc]
                             /\ UNCHANGED << exit_status, diag, rdHolders,
                                             wrHolders >>
  /\ UNCHANGED << flags, internal_flag, runner, filter, rd, sink, emitted,
                  bodyRuns, codec,
                  returned, recorded, safe_read, spawn, child_main, win, argv_flag, torn, props >>

(***************************************************************************)
(* The overseer: Wait and ProcessOutcome.                                  *)
(***************************************************************************)
\* The loop of ReadAndInterpretStatusByte may do its next read.
Reading(p) ==
  /\ pc[p] = "Wait"
  /\ runner[p].spawned
  /\ CanRead(pipe, wrHolders = {}, ReadCount(rd))

\* A read after which the loop goes on; a result that was extracted with a
\* return value > 0 is handed to the result reporter.
ReadGoesOn(p) ==
  /\ Reading(p)
  /\ \E o \in ReaderRunsFrom(rd, pipe) :
       /\ o.ev \in {"none", "dropped", "report"}
       /\ rd' = o.r
       /\ pipe' = o.rest
       /\ sink' = sink \o o.reported
  /\ UNCHANGED << flags, internal_flag, pc, runner, unit, iter, filter,
                  exit_status, diag, rdHolders, wrHolders, emitted, exited_at,
                  bodyRuns, codec,
                  returned, recorded, safe_read, spawn, child_main, win, argv_flag, torn, props, failed_writes >>

\* A loop after which the read end is left open and read_fd is left set.
ReadEndsWithoutClose(p) ==
  /\ Reading(p)
  /\ \E o \in ReaderRunsFrom(rd, pipe) :
       /\ o.ev \in {"died", "exited"}
       /\ rd' = o.r
       /\ pipe' = IF rdHolders \subseteq {p} THEN <<>> ELSE o.rest
       /\ runner' = [runner EXCEPT
                       ![p].outcome = IF o.ev = "died" THEN "TEST_DIED"
                                      ELSE "TEST_EXITED"]
       /\ sink' = sink \o o.reported
  /\ rdHolders' = rdHolders
  /\ pc' = [pc EXCEPT ![p] = "WaitPid"]
  /\ UNCHANGED << flags, internal_flag, unit, iter, filter, exit_status, diag,
                  wrHolders, emitted, exited_at, bodyRuns, codec,
                  returned, recorded, safe_read, spawn, child_main, win, argv_flag, torn, props, failed_writes >>

\* A read that ends the loop: end of stream (TEST_DIED) or 'E' (TEST_EXITED);
\* close(read_fd()), set_read_fd(-1).  Bytes left in a pipe that no process
\* can read any more are gone.
ReadEnds(p) ==
  /\ Reading(p)
  /\ \E o \in ReaderRunsFrom(rd, pipe) :
       /\ o.ev \in {"died", "exited"}
       /\ rd' = o.r
       /\ pipe' = IF rdHolders \subseteq {p} THEN <<>> ELSE o.rest
       /\ runner' = [runner EXCEPT
                       ![p].outcome = IF o.ev = "died" THEN "TEST_DIED"
                                      ELSE "TEST_EXITED",
                       ![p].read_fd = -1]
       /\ sink' = sink \o o.reported
  /\ rdHolders' = Without(rdHolders, p)
  /\ pc' = [pc EXCEPT ![p] = "WaitPid"]
  /\ UNCHANGED << flags, internal_flag, unit, iter, filter, exit_status, diag,
                  wrHolders, emitted, exited_at, bodyRuns, codec,
                  returned, recorded, safe_read, spawn, child_main, win, argv_flag, torn, props, failed_writes >>

\* FailFromInternalError that logs a fixed text instead of the text read.
FailFromInternalErrorWithoutText(p, chars) ==
  LogFatal(p, "internal error of the child")

\* FailFromInternalError(read_fd()): the rest of the stream is read up to its
\* end and logged as a fatal message.
FailFromInternalError(p, chars) == LogFatal(p, TextOf(chars))

\* A loop that takes a byte that is no status byte for the end of the
\* stream.
ReadFatalAsDied(p) ==
  /\ Reading(p)
  /\ \E o \in ReaderRunsFrom(rd, pipe) :
       /\ o.ev \in {"internal_error", "unexpected"}
       /\ rd' = o.r
       /\ pipe' = IF rdHolders \subseteq {p} THEN <<>> ELSE o.rest
       /\ runner' = [runner EXCEPT ![p].outcome = "TEST_DIED",
                                   ![p].read_fd = -1]
       /\ sink' = sink \o o.reported
  /\ rdHolders' = Without(rdHolders, p)
  /\ pc' = [pc EXCEPT ![p] = "WaitPid"]
  /\ UNCHANGED << flags, internal_flag, unit, iter, filter, exit_status, diag,
                  wrHolders, emitted, exited_at, bodyRuns, codec,
                  returned, recorded, safe_read, spawn, child_main, win, argv_flag, torn, props, failed_writes >>

\* A read of 'I' (FailFromInternalError, which reads on until every write end
\* is closed) or of a byte that is no status byte: the parent logs a fatal
\* message and aborts.
ReadFatal(p) ==
  /\ Reading(p)
  /\ \E o \in ReaderRunsFrom(rd, pipe) :
       /\ o.ev \in {"internal_error", "unexpected"}
       /\ o.ev = "internal_error" => wrHolders = {}
       /\ rd' = o.r
       /\ pipe' = IF rdHolders \subseteq {p} \/ o.ev = "internal_error"
                    THEN <<>> ELSE o.rest
       /\ IF o.ev = "unexpected"
            THEN LogFatal(p, "Test child process reported unexpected status byte")
            ELSE FailFromInternalError(p, o.rest)
       /\ sink' = sink \o o.reported
  /\ UNCHANGED << flags, internal_flag, runner, unit, iter, filter, emitted,
                  exited_at, bodyRuns, codec,
                  returned, recorded, safe_read, spawn, child_main, win, argv_flag, torn, props, failed_writes >>

\* A Wait that calls waitpid without having drained the pipe first.
WaitPidBeforeDraining(p) ==
  /\ pc[p] \in {"Wait", "WaitPid"}
  /\ runner[p].spawned
  /\ Terminated("child")
  /\ runner' = [runner EXCEPT ![p].status = exit_status["child"],
                              !["child"] = NoRunner]
  /\ pc' = [pc EXCEPT ![p] = "ProcessOutcome", !["child"] = "None"]
  /\ internal_flag' = [internal_flag EXCEPT !["child"] = NoFlag]
  /\ unit' = [unit EXCEPT !["child"] = 1]
  /\ iter' = [iter EXCEPT !["child"] = 1]
  /\ filter' = [filter EXCEPT !["child"] = Units]
  /\ exit_status' = [exit_status EXCEPT !["child"] = -1]
  /\ diag' = [diag EXCEPT !["child"] = ""]
  /\ returned' = [returned EXCEPT ![p] = WaitReturned(exit_status["child"])]
  /\ argv_flag' = [argv_flag EXCEPT !["child"] = <<>>]
  /\ UNCHANGED << flags, pipe, rdHolders, wrHolders, rd, sink, emitted,
                  exited_at, bodyRuns, codec,
                  recorded, safe_read, spawn, child_main, win, torn, props, failed_writes >>

\* ForkingTestRunner::Wait after the loop: waitpid(child_pid_), set_status.
\* The child that was waited for is no process any more.
WaitPid(p) ==
  /\ pc[p] = "WaitPid"
  /\ Terminated("child")
  /\ runner' = [runner EXCEPT ![p].status = exit_status["child"],
                              !["child"] = NoRunner]
  /\ pc' = [pc EXCEPT ![p] = "ProcessOutcome", !["child"] = "None"]
  /\ internal_flag' = [internal_flag EXCEPT !["child"] = NoFlag]
  /\ unit' = [unit EXCEPT !["child"] = 1]
  /\ iter' = [iter EXCEPT !["child"] = 1]
  /\ filter' = [filter EXCEPT !["child"] = Units]
  /\ exit_status' = [exit_status EXCEPT !["child"] = -1]
  /\ diag' = [diag EXCEPT !["child"] = ""]
  /\ returned' = [returned EXCEPT ![p] = WaitReturned(exit_status["child"])]
  /\ argv_flag' = [argv_flag EXCEPT !["child"] = <<>>]
  /\ UNCHANGED << flags, pipe, rdHolders, wrHolders, rd, sink, emitted,
                  exited_at, bodyRuns, codec,
                  recorded, safe_read, spawn, child_main, win, torn, props, failed_writes >>

\* A ProcessOutcome whose switch has no default case.
ProcessOutcomeWithoutDefault(p) ==
  /\ pc[p] = "ProcessOutcome"
  /\ ~runner[p].spawned \/ runner[p].outcome # "TEST_DIED"
  /\ LET next == Advance(p)
     IN  /\ unit' = [unit EXCEPT ![p] = next.unit]
         /\ iter' = [iter EXCEPT ![p] = next.iter]
         /\ IF next.pc = "Done"
              THEN Ends(p, "Done", WaitStatus.exit0, "")
              ELSE /\ pc' = [pc EXCEPT ![p] = next.pc]
                   /\ UNCHANGED << exit_status, diag, rdHolders, wrHolders >>
  /\ runner' = [runner EXCEPT ![p] = NoRunner]
  /\ sink' = <<>>
  /\ emitted' = <<>>
  /\ exited_at' = -1
  /\ bodyRuns' = [q \in Procs |-> 0]
  /\ returned' = [returned EXCEPT ![p] = ProcessOutcomeReturned(runner[p].spawned)]
  /\ props' = NoProps
  /\ UNCHANGED << flags, internal_flag, filter, pipe, rd, codec,
                  recorded, safe_read, spawn, child_main, win, argv_flag, torn, failed_writes >>

\* TestRunnerImpl::ProcessOutcome returns (false when nothing was spawned,
\* true for TEST_EXITED); the test loop goes on with the next unit, and what
\* belonged to this unit is discarded.
ProcessOutcomeReturns(p) ==
  /\ pc[p] = "ProcessOutcome"
  /\ ~runner[p].spawned \/ runner[p].outcome = "TEST_EXITED"
  /\ LET next == Advance(p)
     IN  /\ unit' = [unit EXCEPT ![p] = next.unit]
         /\ iter' = [iter EXCEPT ![p] = next.iter]
         /\ IF next.pc = "Done"
              THEN Ends(p, "Done", WaitStatus.exit0, "")
              ELSE /\ pc' = [pc EXCEPT ![p] = next.pc]
                   /\ UNCHANGED << exit_status, diag, rdHolders, wrHolders >>
  /\ runner' = [runner EXCEPT ![p] = NoRunner]
  /\ sink' = <<>>
  /\ emitted' = <<>>
  /\ exited_at' = -1
  /\ bodyRuns' = [q \in Procs |-> 0]
  /\ returned' = [returned EXCEPT ![p] = ProcessOutcomeReturned(runner[p].spawned)]
  /\ props' = NoProps
  /\ UNCHANGED << flags, internal_flag, filter, pipe, rd, codec,
                  recorded, safe_read, spawn, child_main, win, argv_flag, torn, failed_writes >>

\* TestRunnerImpl::ProcessOutcome for TEST_DIED and for any other outcome:
\* GTEST_LOG_(FATAL).
ProcessOutcomeFatal(p) ==
  /\ pc[p] = "ProcessOutcome"
  /\ runner[p].spawned
  /\ runner[p].outcome # "TEST_EXITED"
  /\ LogFatal(p, IF runner[p].outcome = "TEST_DIED" THEN "Child process died"
                 ELSE "Unexpected child process outcome")
  /\ UNCHANGED << flags, internal_flag, runner, unit, iter, filter, pipe, rd,
                  sink, emitted, exited_at, bodyRuns, codec,
                  returned, recorded, safe_read, spawn, child_main, win, argv_flag, torn, props, failed_writes >>

Next ==
  \E p \in Procs :
    \/ PostFlagParsingInit(p)
    \/ Create(p)
    \/ AssumeRoleWithFlag(p)
    \/ AssumeRoleSpawn(p)
    \/ AssumeRoleFork(p)
    \/ ChildMainExec(p)
    \/ ChildMainFail(p)
    \/ SetUp(p)
    \/ \E result \in Results : ReportTestPartResult(p, result)
    \/ \E property \in Properties : RecordProperty(p, property)
    \/ ClearCurrentTestPartResults(p)
    \/ \E result \in LongResults : DieInWrite(p, result)
    \/ \E st \in DeathStatuses : Die(p, st)
    \/ BodyReturns(p)
    \/ FixtureTearDownReturns(p)
    \/ TearDownNoExec(p)
    \/ TearDownExec(p)
    \/ ReadGoesOn(p)
    \/ ReadEnds(p)
    \/ ReadFatal(p)
    \/ WaitPid(p)
    \/ ProcessOutcomeReturns(p)
    \/ ProcessOutcomeFatal(p)

Spec == Init /\ [][Next]_vars

\* The run under every build and setting of the use-fork flags; one
\* iteration, crash safety on.
InitSpawn ==
  /\ flags \in [test_runner_style : Styles, crash_safe : {TRUE}, repeat : {1}]
  /\ internal_flag = [p \in Procs |-> NoFlag]
  /\ pc = [parent |-> "Start", child |-> "None"]
  /\ runner = [p \in Procs |-> NoRunner]
  /\ unit = [p \in Procs |-> 1]
  /\ iter = [p \in Procs |-> 1]
  /\ filter = [p \in Procs |-> Units]
  /\ exit_status = [p \in Procs |-> -1]
  /\ diag = [p \in Procs |-> ""]
  /\ pipe = <<>>
  /\ rdHolders = {}
  /\ wrHolders = {}
  /\ rd = RdInit
  /\ sink = <<>>
  /\ emitted = <<>>
  /\ exited_at = -1
  /\ bodyRuns = [p \in Procs |-> 0]
  /\ codec = CodecIdle
  /\ returned = [p \in Procs |-> NoReturn]
  /\ recorded = [p \in Procs |-> <<>>]
  /\ props = NoProps
  /\ failed_writes = [p \in Procs |-> FALSE]
  /\ torn = 0
  /\ safe_read = SafeReadIdle
  /\ child_main = ChildMainIdle
  /\ win = WinIdle
  /\ spawn \in SpawnConfigs
  /\ argv_flag \in {[parent |-> t, child |-> <<>>] : t \in FlagTexts}

SpecSpawn == InitSpawn /\ [][Next]_vars

\* ExecTestRunnerChildMain step by step.  calls lists what the child has
\* called so far in the image it was created in; failed names the system call
\* that returned -1.

\* What TestRunnerAbort(String::Format(...)) calls in a process without an
\* internal flag: String::Format builds a String (its buffer comes from
\* new[]), then fprintf and fflush on stderr, then posix::Abort.
AbortCalls == << "String::Format", "fprintf", "fflush", "abort" >>

\* Calls that take memory from the heap, and calls of buffered I/O.
HeapCalls == {"String::Format"}
BufferedIoCalls == {"fprintf", "fflush", "fputc", "fdopen"}

ChildMainStep(p, from, to, calls, failed) ==
  /\ pc[p] = "ChildMain"
  /\ child_main.pc = from
  /\ child_main' = [pc |-> to, calls |-> child_main.calls \o calls,
                    failed |-> failed]

ChildMainGoesOn(p, from, to, call) ==
  /\ ChildMainStep(p, from, to, << call >>, "")
  /\ UNCHANGED << flags, internal_flag, pc, runner, unit, iter, filter,
                  exit_status, diag, pipe, wrHolders, rd, sink, emitted,
                  exited_at, bodyRuns, codec, returned, recorded, safe_read,
                  spawn, win, argv_flag, torn, props, failed_writes >>

ChildMainAborts(p, from, call, message) ==
  /\ ChildMainStep(p, from, "Aborted", << call >> \o AbortCalls, call)
  /\ TestRunnerAbort(p, message)
  /\ UNCHANGED << flags, internal_flag, runner, unit, iter, filter, rd, sink,
                  emitted, exited_at, bodyRuns, codec, returned, recorded,
                  safe_read, spawn, win, argv_flag, torn, props, failed_writes >>

\* GTEST_TEST_RUNNER_CHECK_SYSCALL_(close(args->close_fd)) succeeds.
ChildMainClose(p) ==
  /\ ChildMainGoesOn(p, "Entry", "Closed", "close")
  /\ rdHolders' = Without(rdHolders, p)

\* close returns -1 with an errno other than EINTR.
ChildMainCloseFails(p) ==
  /\ child_main.failed = ""
  /\ ChildMainAborts(p, "Entry", "close",
                    "CHECK failed: close(args->close_fd) != -1")

\* chdir(original_dir) returns 0.
ChildMainChdir(p) ==
  /\ ChildMainGoesOn(p, "Closed", "InOriginalDir", "chdir")
  /\ UNCHANGED rdHolders

\* chdir(original_dir) fails.
ChildMainChdirFails(p) ==
  /\ child_main.failed = ""
  /\ ChildMainAborts(p, "Closed", "chdir", "chdir or execve failed")

\* execve replaces the image: the program starts from the top with the
\* arguments ExecTestRunner::AssumeRole put together.
ChildMainExecve(p) ==
  /\ ChildMainStep(p, "InOriginalDir", "Replaced", << "execve" >>, "")
  /\ argv_flag' = [argv_flag EXCEPT ![p] = FormatInternalFlag(PipeFd[2])]
  /\ internal_flag' = [internal_flag EXCEPT ![p] = NoFlag]
  /\ filter' = [filter EXCEPT ![p] = {unit[p]}]
  /\ iter' = [iter EXCEPT ![p] = 1]
  /\ runner' = [runner EXCEPT ![p] = NoRunner]
  /\ pc' = [pc EXCEPT ![p] = "Start"]
  /\ UNCHANGED << flags, unit, exit_status, diag, pipe, rdHolders, wrHolders,
                  rd, sink, emitted, exited_at, bodyRuns, codec, returned,
                  recorded, safe_read, spawn, win, torn, props, failed_writes >>

\* execve returns.
ChildMainExecveFails(p) ==
  /\ child_main.failed = ""
  /\ ChildMainAborts(p, "InOriginalDir", "execve", "chdir or execve failed")

\* The state ExecTestRunner::AssumeRole leaves when it has created the
\* child, for every unit, iteration and way of creating the child.
InitChildMain ==
  /\ flags \in [test_runner_style : {"threadsafe"}, crash_safe : {TRUE},
                repeat : 1..MaxRepeat]
  /\ internal_flag = [p \in Procs |-> NoFlag]
  /\ pc = [parent |-> "Wait", child |-> "ChildMain"]
  /\ runner =
       [parent |-> [NewRunner("ExecTestRunner")
                      EXCEPT !.spawned = TRUE, !.read_fd = PipeFd[1],
                             !.child_pid = 1],
        child |-> NewRunner("ExecTestRunner")]
  /\ \E u \in Units : unit = [p \in Procs |-> u]
  /\ \E i \in 1..flags.repeat : iter = [p \in Procs |-> i]
  /\ filter = [p \in Procs |-> Units]
  /\ exit_status = [p \in Procs |-> -1]
  /\ diag = [p \in Procs |-> ""]
  /\ pipe = <<>>
  /\ rdHolders = {"parent", "child"}
  /\ wrHolders = {"child"}
  /\ rd = RdInit
  /\ sink = <<>>
  /\ emitted = <<>>
  /\ exited_at = -1
  /\ bodyRuns = [p \in Procs |-> 0]
  /\ codec = CodecIdle
  /\ returned = [p \in Procs |-> NoReturn]
  /\ recorded = [p \in Procs |-> <<>>]
  /\ props = NoProps
  /\ failed_writes = [p \in Procs |-> FALSE]
  /\ torn = 0
  /\ safe_read = SafeReadIdle
  /\ child_main = [pc |-> "Entry", calls |-> <<>>, failed |-> ""]
  /\ win = WinIdle
  /\ \E s \in SpawnConfigs :
       spawn = [s EXCEPT !.primitive = ExecTestRunnerSpawnChild(s)]
  /\ argv_flag = [p \in Procs |-> <<>>]

NextChildMain ==
  \E p \in Procs :
    \/ ChildMainClose(p)
    \/ ChildMainCloseFails(p)
    \/ ChildMainChdir(p)
    \/ ChildMainChdirFails(p)
    \/ ChildMainExecve(p)
    \/ ChildMainExecveFails(p)

SpecChildMain == InitChildMain /\ [][NextChildMain]_vars

\* The Windows build.  The parent is process 1; its handles have small
\* numbers.
WinParentPid == 1
WinWriteHandle == 4
WinEventHandle == 5

\* The value WindowsTestRunner::AssumeRole gives the internal flag:
\* "%s|%d|%u|%Iu|%Iu" of file_, line_, the id of the parent, the write handle
\* and the event handle.  The file is "x" and the line 7.
FormatInternalFlagWindows(pid, write_handle, event_handle) ==
  <<kLetter, kBar>> \o Decimal(7) \o <<kBar>> \o Decimal(pid) \o <<kBar>>
    \o Decimal(write_handle) \o <<kBar>> \o Decimal(event_handle)

\* ParseInternalTestRunnerFlag under GTEST_OS_WINDOWS up to the call of
\* GetTestRunnerStatusFileDescriptor: four fields, of which the last three
\* are numbers.
ParseInternalTestRunnerFlagWindows(text) ==
  IF text = <<>> THEN [how |-> "NULL"]
  ELSE LET fields == SplitString(text, kBar)
       IN  IF \/ Len(fields) # 4
              \/ ~ParseNaturalNumber(fields[2]).ok
              \/ ~ParseNaturalNumber(fields[3]).ok
              \/ ~ParseNaturalNumber(fields[4]).ok
             THEN [how |-> "abort"]
             ELSE [how |-> "flag",
                   parent_process_id |-> ParseNaturalNumber(fields[2]).number,
                   write_handle |-> ParseNaturalNumber(fields[3]).number,
                   event_handle |-> ParseNaturalNumber(fields[4]).number]

\* WindowsTestRunner::AssumeRole without a flag: CreatePipe with inheritable
\* handles, CreateEvent, CreateProcessA with bInheritHandles; OVERSEE_TEST.
\* The child is a new process of the same executable, given the filter of
\* the unit and the internal flag; it inherits the handles of both ends.
WindowsAssumeRole(p) ==
  /\ pc[p] = "AssumeRole"
  /\ p = "parent"
  /\ runner[p].kind = "WindowsTestRunner"
  /\ internal_flag[p] = NoFlag
  /\ runner' = [runner EXCEPT
                  ![p] = [@ EXCEPT !.read_fd = PipeFd[1], !.spawned = TRUE],
                  !["child"] = NoRunner]
  /\ pc' = [pc EXCEPT ![p] = "WaitForMultipleObjects", !["child"] = "Start"]
  /\ internal_flag' = [internal_flag EXCEPT !["child"] = NoFlag]
  /\ unit' = [unit EXCEPT !["child"] = unit[p]]
  /\ iter' = [iter EXCEPT !["child"] = 1]
  /\ filter' = [filter EXCEPT !["child"] = {unit[p]}]
  /\ exit_status' = [exit_status EXCEPT !["child"] = -1]
  /\ diag' = [diag EXCEPT !["child"] = ""]
  /\ pipe' = <<>>
  /\ rdHolders' = {p, "child"}
  /\ wrHolders' = {p, "child"}
  /\ rd' = RdInit
  /\ emitted' = <<>>
  /\ exited_at' = -1
  /\ bodyRuns' = [q \in Procs |-> 0]
  /\ props' = NoProps
  /\ torn' = 0
  /\ argv_flag' =
       [argv_flag EXCEPT !["child"] =
          FormatInternalFlagWindows(WinParentPid, WinWriteHandle,
                                    WinEventHandle)]
  /\ win' = [write_handle_ |-> TRUE, event_handle_ |-> TRUE,
             child_handle_ |-> TRUE, event |-> FALSE]
  /\ UNCHANGED << flags, sink, codec, returned, recorded, safe_read, spawn,
                  child_main, failed_writes >>

\* The start of the child on Windows: ParseInternalTestRunnerFlag, which
\* aborts on a flag that has not four fields and otherwise calls
\* GetTestRunnerStatusFileDescriptor: OpenProcess, DuplicateHandle of the
\* write handle and of the event handle out of the parent (they fail when the
\* parent has closed its handle), _open_osfhandle, SetEvent.
WindowsPostFlagParsingInit(p) ==
  /\ pc[p] = "Start"
  /\ p = "child"
  /\ LET parsed == ParseInternalTestRunnerFlagWindows(argv_flag[p])
     IN  IF parsed.how = "abort"
           THEN /\ TestRunnerAbort(p, "Bad --gtest_internal_test_runner flag")
                /\ UNCHANGED << internal_flag, win >>
         ELSE IF parsed.how = "NULL"
           THEN /\ pc' = [pc EXCEPT ![p] = "Create"]
                /\ UNCHANGED << internal_flag, win, exit_status, diag, pipe,
                                rdHolders, wrHolders >>
         ELSE IF ~(win.write_handle_ /\ win.event_handle_)
           THEN /\ TestRunnerAbort(p, "x")
                /\ UNCHANGED << internal_flag, win >>
           ELSE /\ internal_flag' = [internal_flag EXCEPT ![p] = PipeFd[2]]
                /\ win' = [win EXCEPT !.event = TRUE]
                /\ pc' = [pc EXCEPT ![p] = "Create"]
                /\ UNCHANGED << exit_status, diag, pipe, rdHolders,
                                wrHolders >>
  /\ UNCHANGED << flags, runner, unit, iter, filter, rd, sink, emitted,
                  exited_at, bodyRuns, codec, returned, recorded, safe_read,
                  spawn, child_main, argv_flag, torn, props, failed_writes >>

\* The child is ended from outside before it has looked at its flag.
WindowsChildKilled(p, st) ==
  /\ pc[p] = "Start"
  /\ p = "child"
  /\ Ends(p, "Killed", st, "")
  /\ UNCHANGED << flags, internal_flag, runner, unit, iter, filter, pipe, rd,
                  sink, emitted, exited_at, bodyRuns, codec, returned,
                  recorded, safe_read, spawn, child_main, win, argv_flag,
                  torn, props, failed_writes >>

\* WindowsTestRunner::Wait gives up the handles without waiting for the
\* child.
WindowsWaitReleasesAtOnce(p) ==
  /\ pc[p] = "WaitForMultipleObjects"
  /\ runner[p].spawned
  /\ win' = [win EXCEPT !.write_handle_ = FALSE, !.event_handle_ = FALSE]
  /\ wrHolders' = Without(wrHolders, p)
  /\ pc' = [pc EXCEPT ![p] = "Wait"]
  /\ UNCHANGED << flags, internal_flag, runner, unit, iter, filter,
                  exit_status, diag, pipe, rdHolders, rd, sink, emitted,
                  exited_at, bodyRuns, codec, returned, recorded, safe_read,
                  spawn, child_main, argv_flag, torn, props, failed_writes >>

\* WindowsTestRunner::Wait, first part: WaitForMultipleObjects returns when
\* the child's process handle or the event is signalled; then
\* write_handle_.Reset() and event_handle_.Reset().  The reads of
\* ReadAndInterpretStatusByte follow.
WindowsWaitReleases(p) ==
  /\ pc[p] = "WaitForMultipleObjects"
  /\ runner[p].spawned
  /\ Terminated("child") \/ win.event
  /\ win' = [win EXCEPT !.write_handle_ = FALSE, !.event_handle_ = FALSE]
  /\ wrHolders' = Without(wrHolders, p)
  /\ pc' = [pc EXCEPT ![p] = "Wait"]
  /\ UNCHANGED << flags, internal_flag, runner, unit, iter, filter,
                  exit_status, diag, pipe, rdHolders, rd, sink, emitted,
                  exited_at, bodyRuns, codec, returned, recorded, safe_read,
                  spawn, child_main, argv_flag, torn, props, failed_writes >>

\* WindowsTestRunner::Wait, last part: WaitForSingleObject on the child,
\* GetExitCodeProcess, child_handle_.Reset(), set_status; returns status().
WindowsWaitForExit(p) ==
  /\ pc[p] = "WaitPid"
  /\ win.child_handle_
  /\ Terminated("child")
  /\ runner' = [runner EXCEPT ![p].status = exit_status["child"]]
  /\ win' = [win EXCEPT !.child_handle_ = FALSE]
  /\ pc' = [pc EXCEPT ![p] = "ProcessOutcome"]
  /\ returned' = [returned EXCEPT ![p] = WaitReturned(exit_status["child"])]
  /\ UNCHANGED << flags, internal_flag, unit, iter, filter, exit_status, diag,
                  pipe, rdHolders, wrHolders, rd, sink, emitted, exited_at,
                  bodyRuns, codec, recorded, safe_read, spawn, child_main,
                  argv_flag, torn, props, failed_writes >>

\* A Windows run at the call of AssumeRole for a unit: Create has made a
\* WindowsTestRunner for either style.
InitHandshake ==
  /\ flags \in [test_runner_style : Styles, crash_safe : {TRUE},
                repeat : 1..MaxRepeat]
  /\ internal_flag = [p \in Procs |-> NoFlag]
  /\ pc = [parent |-> "AssumeRole", child |-> "None"]
  /\ runner = [parent |-> NewRunner("WindowsTestRunner"), child |-> NoRunner]
  /\ \E u \in Units : unit = [parent |-> u, child |-> 1]
  /\ \E i \in 1..flags.repeat : iter = [parent |-> i, child |-> 1]
  /\ filter = [p \in Procs |-> Units]
  /\ exit_status = [p \in Procs |-> -1]
  /\ diag = [p \in Procs |-> ""]
  /\ pipe = <<>>
  /\ rdHolders = {}
  /\ wrHolders = {}
  /\ rd = RdInit
  /\ sink = <<>>
  /\ emitted = <<>>
  /\ exited_at = -1
  /\ bodyRuns = [p \in Procs |-> 0]
  /\ codec = CodecIdle
  /\ returned = [p \in Procs |-> NoReturn]
  /\ recorded = [p \in Procs |-> <<>>]
  /\ props = NoProps
  /\ failed_writes = [p \in Procs |-> FALSE]
  /\ torn = 0
  /\ safe_read = SafeReadIdle
  /\ child_main = ChildMainIdle
  /\ win = WinIdle
  /\ spawn = SpawnDefault
  /\ argv_flag = [p \in Procs |-> <<>>]

NextHandshake ==
  \E p \in Procs :
    \/ WindowsAssumeRole(p)
    \/ WindowsPostFlagParsingInit(p)
    \/ \E st \in DeathStatuses : WindowsChildKilled(p, st)
    \/ WindowsWaitReleases(p)
    \/ ReadEnds(p)
    \/ WindowsWaitForExit(p)

SpecHandshake == InitHandshake /\ [][NextHandshake]_vars

\* A Wait that goes on to waitpid although nothing was spawned, and returns
\* the status field.
WaitNotSpawnedReturnsStatus(p) ==
  /\ pc[p] = "Wait"
  /\ ~runner[p].spawned
  /\ pc' = [pc EXCEPT ![p] = "ProcessOutcome"]
  /\ returned' = [returned EXCEPT ![p] = WaitReturned(runner[p].status)]
  /\ UNCHANGED << flags, internal_flag, runner, unit, iter, filter,
                  exit_status, diag, pipe, rdHolders, wrHolders, rd, sink,
                  emitted, exited_at, bodyRuns, codec, recorded, safe_read,
                  spawn, child_main, win, argv_flag, torn, props,
                  failed_writes >>

\* ForkingTestRunner::Wait on a runner that spawned nothing:
\* if (!spawned()) return 0.  The caller goes on to ProcessOutcome.
WaitNotSpawned(p) ==
  /\ pc[p] = "Wait"
  /\ ~runner[p].spawned
  /\ pc' = [pc EXCEPT ![p] = "ProcessOutcome"]
  /\ returned' = [returned EXCEPT ![p] = WaitReturned(0)]
  /\ UNCHANGED << flags, internal_flag, runner, unit, iter, filter,
                  exit_status, diag, pipe, rdHolders, wrHolders, rd, sink,
                  emitted, exited_at, bodyRuns, codec, recorded, safe_read,
                  spawn, child_main, win, argv_flag, torn, props,
                  failed_writes >>

\* The first process calls Wait on a runner that has spawned nothing: the
\* runner is as its constructor left it, but for the write descriptor that
\* AssumeRole sets in a process started with an internal flag.
InitCalls ==
  /\ flags \in [test_runner_style : Styles, crash_safe : BOOLEAN,
                repeat : {1}]
  /\ \E fd \in {NoFlag} \cup InheritedFds :
       /\ internal_flag = [parent |-> fd, child |-> NoFlag]
       /\ runner =
            [parent |-> [NewRunner(DefaultTestRunnerFactoryCreate(
                                     flags.test_runner_style).kind)
                           EXCEPT !.write_fd = fd],
             child |-> NoRunner]
       /\ argv_flag =
            [parent |-> IF fd = NoFlag THEN <<>>
                        ELSE <<kLetter, kBar>> \o Decimal(fd),
             child |-> <<>>]
  /\ pc = [parent |-> "Wait", child |-> "None"]
  /\ \E u \in Units : unit = [parent |-> u, child |-> 1]
  /\ iter = [p \in Procs |-> 1]
  /\ filter = [p \in Procs |-> Units]
  /\ exit_status = [p \in Procs |-> -1]
  /\ diag = [p \in Procs |-> ""]
  /\ pipe = <<>>
  /\ rdHolders = {}
  /\ wrHolders = {}
  /\ rd = RdInit
  /\ sink = <<>>
  /\ emitted = <<>>
  /\ exited_at = -1
  /\ bodyRuns = [p \in Procs |-> 0]
  /\ codec = CodecIdle
  /\ returned = [p \in Procs |-> NoReturn]
  /\ recorded = [p \in Procs |-> <<>>]
  /\ props = NoProps
  /\ failed_writes = [p \in Procs |-> FALSE]
  /\ torn = 0
  /\ safe_read = SafeReadIdle
  /\ child_main = ChildMainIdle
  /\ win = WinIdle
  /\ spawn = SpawnDefault

\* The run, and the calls on a runner that has spawned nothing.
NextCalls == Next \/ \E p \in Procs : WaitNotSpawned(p)

SpecCalls == (Init \/ InitCalls) /\ [][NextCalls]_vars

\* ExtractStringFromStream read by read, on every length the four bytes can
\* hold for the reader.

\* Four length bytes, low byte first: 0, 1, 2, 2^31 - 1, 2^31, 2^32 - 1.
LengthBytes ==
  {Int32Bytes(0), Int32Bytes(1), Int32Bytes(2), <<255, 255, 255, 127>>,
   <<0, 0, 0, 128>>, <<255, 255, 255, 255>>}

\* What follows the length in the pipe.
StringBytes == {<<>>, <<97>>, <<97, 98>>, <<97, 98, 99>>}

\* The first read of ExtractStringFromStream: SafeRead of sizeof(size) bytes
\* into size.
ExtractStringSize(p) ==
  /\ Reading(p)
  /\ rd.pos \in {"FSize", "MSize"}
  /\ \E o \in ReaderSteps(rd, pipe) :
       /\ rd' = o.r
       /\ pipe' = o.rest
  /\ UNCHANGED << flags, internal_flag, pc, runner, unit, iter, filter,
                  exit_status, diag, rdHolders, wrHolders, sink, emitted,
                  exited_at, bodyRuns, codec, returned, recorded, safe_read,
                  spawn, child_main, win, argv_flag, torn, props,
                  failed_writes >>

\* The second read: new char[size + 1], SafeRead(read_fd, buffer, size).
ExtractStringData(p) ==
  /\ Reading(p)
  /\ rd.pos \in {"FData", "MData"}
  /\ \E o \in ReaderSteps(rd, pipe) :
       /\ rd' = o.r
       /\ pipe' = o.rest
       /\ sink' = sink \o o.reported
  /\ UNCHANGED << flags, internal_flag, pc, runner, unit, iter, filter,
                  exit_status, diag, rdHolders, wrHolders, emitted,
                  exited_at, bodyRuns, codec, returned, recorded, safe_read,
                  spawn, child_main, win, argv_flag, torn, props,
                  failed_writes >>

\* The overseer is about to read the length of the file name or of the
\* message; the child has ended and has left a length and some bytes.
InitExtract ==
  /\ flags \in [test_runner_style : Styles, crash_safe : {TRUE},
                repeat : {1}]
  /\ internal_flag = [p \in Procs |-> NoFlag]
  /\ pc = [parent |-> "Wait", child |-> "Exited"]
  /\ runner =
       [parent |-> [NewRunner(DefaultTestRunnerFactoryCreate(
                                flags.test_runner_style).kind)
                      EXCEPT !.spawned = TRUE, !.read_fd = PipeFd[1],
                             !.child_pid = 1],
        child |-> NoRunner]
  /\ unit = [p \in Procs |-> 1]
  /\ iter = [p \in Procs |-> 1]
  /\ filter = [p \in Procs |-> Units]
  /\ exit_status = [parent |-> -1, child |-> WaitStatus.exit0]
  /\ diag = [p \in Procs |-> ""]
  /\ \E size \in LengthBytes, chars \in StringBytes : pipe = size \o chars
  /\ rdHolders = {"parent"}
  /\ wrHolders = {}
  /\ \E pos \in {"FSize", "MSize"} :
       rd = [RdInit EXCEPT !.pos = pos, !.type = "kSuccess"]
  /\ sink = <<>>
  /\ emitted = <<>>
  /\ exited_at = -1
  /\ bodyRuns = [p \in Procs |-> 0]
  /\ codec = CodecIdle
  /\ returned = [p \in Procs |-> NoReturn]
  /\ recorded = [p \in Procs |-> <<>>]
  /\ props = NoProps
  /\ failed_writes = [p \in Procs |-> FALSE]
  /\ torn = 0
  /\ safe_read = SafeReadIdle
  /\ child_main = ChildMainIdle
  /\ win = WinIdle
  /\ spawn = SpawnDefault
  /\ argv_flag = [p \in Procs |-> <<>>]

NextExtract ==
  \E p \in Procs : ExtractStringSize(p) \/ ExtractStringData(p)

SpecExtract == InitExtract /\ [][NextExtract]_vars

\* The overseer is a running process: a read of the pipe that can return
\* does return, and so does a waitpid for a child that has ended.
OverseerRuns ==
  /\ WF_vars(ReadGoesOn("parent") \/ ReadEnds("parent") \/ ReadFatal("parent"))
  /\ WF_vars(WaitPid("parent"))

\* The runs with isolation switched on and one iteration.
InitSupervised ==
  /\ Init
  /\ flags.crash_safe
  /\ flags.repeat = 1

SpecFair == InitSupervised /\ [][Next]_vars /\ OverseerRuns

(***************************************************************************)
(* The serialization round trip on its own: a test part result is          *)
(* serialized by SerializeTestPartResult and the bytes, followed by end of *)
(* stream, are read by ExtractTestPartResultFromStream.                    *)
(***************************************************************************)
CodecFileNames == {NullStr, Str(<<>>), Str(<<97>>), Str(<<82, 78>>)}
CodecLines == {-1, 0, 69, 300}
CodecTexts == {NullStr, Str(<<>>), Str(<<70, 69, 73>>)}
CodecInputs ==
  [type : Kinds, file_name : CodecFileNames, line_number : CodecLines,
   message : CodecTexts]

InitCodec ==
  /\ flags = [test_runner_style |-> "fast", crash_safe |-> TRUE, repeat |-> 1]
  /\ internal_flag = [p \in Procs |-> NoFlag]
  /\ pc = [p \in Procs |-> "None"]
  /\ runner = [p \in Procs |-> NoRunner]
  /\ unit = [p \in Procs |-> 1]
  /\ iter = [p \in Procs |-> 1]
  /\ filter = [p \in Procs |-> Units]
  /\ exit_status = [p \in Procs |-> -1]
  /\ diag = [p \in Procs |-> ""]
  /\ pipe = <<>>
  /\ rdHolders = {}
  /\ wrHolders = {}
  /\ rd = RdInit
  /\ sink = <<>>
  /\ emitted = <<>>
  /\ exited_at = -1
  /\ bodyRuns = [p \in Procs |-> 0]
  /\ returned = [p \in Procs |-> NoReturn]
  /\ recorded = [p \in Procs |-> <<>>]
  /\ props = NoProps
  /\ failed_writes = [p \in Procs |-> FALSE]
  /\ torn = 0
  /\ safe_read = SafeReadIdle
  /\ child_main = ChildMainIdle
  /\ win = WinIdle
  /\ spawn = SpawnDefault
  /\ argv_flag = [p \in Procs |-> <<>>]
  /\ codec \in {[pc |-> "Serialize", input |-> i, encoded |-> <<>>,
                 output |-> NoResult] : i \in CodecInputs}

\* SerializeTestPartResult(input, &data); the process may crash in strlen.
CodecSerialize ==
  /\ codec.pc = "Serialize"
  /\ \E data \in SerializeTestPartResult(codec.input) :
       IF data.crash
         THEN /\ codec' = [codec EXCEPT !.pc = "Crashed"]
              /\ UNCHANGED << pipe, rd >>
         ELSE /\ codec' = [codec EXCEPT !.pc = "Extract", !.encoded = data.bytes]
              /\ pipe' = data.bytes
              /\ rd' = [RdInit EXCEPT !.pos = "Type"]
  /\ UNCHANGED << flags, internal_flag, pc, runner, unit, iter, filter,
                  exit_status, diag, rdHolders, wrHolders, sink, emitted,
                  exited_at, bodyRuns, returned, recorded, safe_read, spawn, child_main, win, argv_flag, torn, props, failed_writes >>

\* One read of ExtractTestPartResultFromStream; it returns 1 with a result
\* ("Done") or a value <= 0 ("Failed").
CodecExtract ==
  /\ codec.pc = "Extract"
  /\ \E o \in ReaderSteps(rd, pipe) :
       /\ rd' = o.r
       /\ pipe' = o.rest
       /\ codec' = CASE o.ev = "report" ->
                         [codec EXCEPT !.pc = "Done", !.output = o.reported[1]]
                     [] o.ev = "dropped" -> [codec EXCEPT !.pc = "Failed"]
                     [] OTHER -> codec
  /\ UNCHANGED << flags, internal_flag, pc, runner, unit, iter, filter,
                  exit_status, diag, rdHolders, wrHolders, sink, emitted,
                  exited_at, bodyRuns, returned, recorded, safe_read, spawn, child_main, win, argv_flag, torn, props, failed_writes >>

NextCodec == CodecSerialize \/ CodecExtract

SpecCodec == InitCodec /\ [][NextCodec]_vars

(***************************************************************************)
(* The parsing of the internal flag on its own: a process is started with  *)
(* any short flag value of separators, letters and digits.                 *)
(***************************************************************************)
FlagChars == {kBar, kLetter, kZero + 4, kZero + 9}
AllFlagTexts == UNION {[1..n -> FlagChars] : n \in 0..MaxFlagLen}

InitFlag ==
  /\ flags \in [test_runner_style : Styles, crash_safe : BOOLEAN,
                repeat : 1..MaxRepeat]
  /\ internal_flag = [p \in Procs |-> NoFlag]
  /\ pc = [parent |-> "Start", child |-> "None"]
  /\ runner = [p \in Procs |-> NoRunner]
  /\ unit = [p \in Procs |-> 1]
  /\ iter = [p \in Procs |-> 1]
  /\ filter = [p \in Procs |-> Units]
  /\ exit_status = [p \in Procs |-> -1]
  /\ diag = [p \in Procs |-> ""]
  /\ pipe = <<>>
  /\ rdHolders = {}
  /\ wrHolders = {}
  /\ rd = RdInit
  /\ sink = <<>>
  /\ emitted = <<>>
  /\ exited_at = -1
  /\ bodyRuns = [p \in Procs |-> 0]
  /\ codec = CodecIdle
  /\ returned = [p \in Procs |-> NoReturn]
  /\ recorded = [p \in Procs |-> <<>>]
  /\ props = NoProps
  /\ failed_writes = [p \in Procs |-> FALSE]
  /\ torn = 0
  /\ safe_read = SafeReadIdle
  /\ child_main = ChildMainIdle
  /\ win = WinIdle
  /\ spawn = SpawnDefault
  /\ argv_flag \in {[parent |-> t, child |-> <<>>] : t \in AllFlagTexts}

NextFlag == \E p \in Procs : PostFlagParsingInit(p)

SpecFlag == InitFlag /\ [][NextFlag]_vars

(***************************************************************************)
(* ProcessOutcome on its own: the overseer calls it with a runner in any   *)
(* state, also one whose Wait was not called.                              *)
(***************************************************************************)
Outcomes == {"TEST_IN_PROGRESS", "TEST_DIED", "TEST_EXITED"}
TerminalOutcomes == {"TEST_DIED", "TEST_EXITED"}

InitOutcome ==
  /\ flags \in [test_runner_style : Styles, crash_safe : BOOLEAN,
                repeat : 1..MaxRepeat]
  /\ internal_flag = [p \in Procs |-> NoFlag]
  /\ pc = [parent |-> "ProcessOutcome", child |-> "None"]
  /\ runner \in
       {[parent |-> [NewRunner(DefaultTestRunnerFactoryCreate(
                                 flags.test_runner_style).kind)
                       EXCEPT !.spawned = s, !.outcome = o, !.status = st],
         child |-> NoRunner] :
          s \in BOOLEAN, o \in Outcomes, st \in {-1} \cup DeathStatuses}
  /\ unit \in [Procs -> Units]
  /\ iter = [p \in Procs |-> 1]
  /\ filter = [p \in Procs |-> Units]
  /\ exit_status = [p \in Procs |-> -1]
  /\ diag = [p \in Procs |-> ""]
  /\ pipe = <<>>
  /\ rdHolders = {}
  /\ wrHolders = {}
  /\ rd = RdInit
  /\ sink = <<>>
  /\ emitted = <<>>
  /\ exited_at = -1
  /\ bodyRuns = [p \in Procs |-> 0]
  /\ codec = CodecIdle
  /\ returned = [p \in Procs |-> NoReturn]
  /\ recorded = [p \in Procs |-> <<>>]
  /\ props = NoProps
  /\ failed_writes = [p \in Procs |-> FALSE]
  /\ torn = 0
  /\ safe_read = SafeReadIdle
  /\ child_main = ChildMainIdle
  /\ win = WinIdle
  /\ spawn = SpawnDefault
  /\ argv_flag = [p \in Procs |-> <<>>]

NextOutcome ==
  \E p \in Procs : ProcessOutcomeReturns(p) \/ ProcessOutcomeFatal(p)

SpecOutcome == InitOutcome /\ [][NextOutcome]_vars

(***************************************************************************)
(* The interpreter loop on its own: the child has ended, and the parent    *)
(* reads what the child left in the pipe.                                  *)
(***************************************************************************)
\* The message of a test part result whose type byte is a letter that is
\* none of 'S', 'N', 'F'; the strings and the line number are well-formed.
BadTypeMessage ==
  <<kTestRunnerTestPartResult, kLetter>> \o Int32Bytes(1) \o <<97>>
    \o Int32Bytes(7) \o Int32Bytes(1) \o <<109>>

\* What the child wrote before its last message: nothing, or a result.
ReaderPrefixes ==
  {<<>>, BadTypeMessage} \cup
  {d.bytes : d \in {m \in UNION {ReportMessage(result) :
                                   result \in {Result("kSuccess", <<97>>, 7, <<109>>),
                                               Result("kFatalFailure", <<97>>, 69, <<109>>)}} :
                      ~m.crash}}

\* The last message: none, 'E', a byte that is no status byte, or 'I' with
\* the text that TestRunnerAbort wrote after it.
ReaderTails ==
  {<<>>, <<kTestRunnerExited>>, <<kLetter>>}
    \cup {<<kTestRunnerInternalError>> \o chars :
            chars \in {<<>>, <<kZero + 4>>} \cup {t.chars : t \in Diagnostics}}

ReaderStreams == {a \o b : a \in ReaderPrefixes, b \in ReaderTails}

InitReader ==
  /\ flags \in [test_runner_style : Styles, crash_safe : {TRUE},
                repeat : {1}]
  /\ internal_flag = [p \in Procs |-> NoFlag]
  /\ pc = [parent |-> "Wait", child |-> "Exited"]
  /\ runner =
       [parent |-> [NewRunner(DefaultTestRunnerFactoryCreate(
                                flags.test_runner_style).kind)
                      EXCEPT !.spawned = TRUE, !.read_fd = PipeFd[1],
                             !.child_pid = 1],
        child |-> NoRunner]
  /\ unit = [p \in Procs |-> 1]
  /\ iter = [p \in Procs |-> 1]
  /\ filter = [p \in Procs |-> Units]
  /\ exit_status \in {[parent |-> -1, child |-> st] :
                         st \in {WaitStatus.exit0, WaitStatus.exit1}}
  /\ diag = [p \in Procs |-> ""]
  /\ pipe \in ReaderStreams
  /\ rdHolders = {"parent"}
  /\ wrHolders = {}
  /\ rd = RdInit
  /\ sink = <<>>
  /\ emitted = <<>>
  /\ exited_at = -1
  /\ bodyRuns = [p \in Procs |-> 0]
  /\ codec = CodecIdle
  /\ returned = [p \in Procs |-> NoReturn]
  /\ recorded = [p \in Procs |-> <<>>]
  /\ props = NoProps
  /\ failed_writes = [p \in Procs |-> FALSE]
  /\ torn = 0
  /\ safe_read = SafeReadIdle
  /\ child_main = ChildMainIdle
  /\ win = WinIdle
  /\ spawn = SpawnDefault
  /\ argv_flag = [p \in Procs |-> <<>>]

NextReader ==
  \E p \in Procs : ReadGoesOn(p) \/ ReadEnds(p) \/ ReadFatal(p) \/ WaitPid(p)

SpecReader == InitReader /\ [][NextReader]_vars

(***************************************************************************)
(* TestRunner::Create on its own: the style flag holds any string, and     *)
(* *test holds what an earlier call left there.                            *)
(***************************************************************************)
\* Values of --gtest_test_runner_style: the two styles, the empty string and
\* a word that names no style.
AllStyles == Styles \cup {"", "bogus"}

\* What *test holds before the call: nothing, or the runner of an earlier
\* unit.
EarlierRunners ==
  {NoRunner} \cup
  {[NewRunner(k) EXCEPT !.spawned = s, !.outcome = o, !.status = st] :
     k \in {"ExecTestRunner", "NoExecTestRunner"}, s \in BOOLEAN,
     o \in {"TEST_EXITED", "TEST_DIED"}, st \in {WaitStatus.exit0, WaitStatus.segv}}

InitFactory ==
  /\ flags \in [test_runner_style : AllStyles, crash_safe : BOOLEAN,
                repeat : 1..MaxRepeat]
  /\ internal_flag = [p \in Procs |-> NoFlag]
  /\ pc = [parent |-> "Create", child |-> "None"]
  /\ runner \in {[parent |-> r, child |-> NoRunner] : r \in EarlierRunners}
  /\ unit \in {[parent |-> u, child |-> 1] : u \in Units}
  /\ iter = [p \in Procs |-> 1]
  /\ filter = [p \in Procs |-> Units]
  /\ exit_status = [p \in Procs |-> -1]
  /\ diag = [p \in Procs |-> ""]
  /\ pipe = <<>>
  /\ rdHolders = {}
  /\ wrHolders = {}
  /\ rd = RdInit
  /\ sink = <<>>
  /\ emitted = <<>>
  /\ exited_at = -1
  /\ bodyRuns = [p \in Procs |-> 0]
  /\ codec = CodecIdle
  /\ returned = [p \in Procs |-> NoReturn]
  /\ recorded = [p \in Procs |-> <<>>]
  /\ props = NoProps
  /\ failed_writes = [p \in Procs |-> FALSE]
  /\ torn = 0
  /\ safe_read = SafeReadIdle
  /\ child_main = ChildMainIdle
  /\ win = WinIdle
  /\ spawn = SpawnDefault
  /\ argv_flag = [p \in Procs |-> <<>>]

NextFactory == \E p \in Procs : Create(p) \/ CreateFails(p)

SpecFactory == InitFactory /\ [][NextFactory]_vars

(***************************************************************************)
(* One call of SafeRead on its own: the peer writes its bytes in parts and *)
(* closes its end, posix::Read may return EINTR or fail.                   *)
(***************************************************************************)
\* The bytes the peer writes in all: count different bytes.
PeerBytes(count) == [i \in 1..count |-> 10 + i]

InitSafeRead ==
  /\ flags = [test_runner_style |-> "fast", crash_safe |-> TRUE, repeat |-> 1]
  /\ internal_flag = [p \in Procs |-> NoFlag]
  /\ pc = [p \in Procs |-> "None"]
  /\ runner = [p \in Procs |-> NoRunner]
  /\ unit = [p \in Procs |-> 1]
  /\ iter = [p \in Procs |-> 1]
  /\ filter = [p \in Procs |-> Units]
  /\ exit_status = [p \in Procs |-> -1]
  /\ diag = [p \in Procs |-> ""]
  /\ rdHolders = {"parent"}
  /\ rd = RdInit
  /\ sink = <<>>
  /\ emitted = <<>>
  /\ exited_at = -1
  /\ bodyRuns = [p \in Procs |-> 0]
  /\ codec = CodecIdle
  /\ returned = [p \in Procs |-> NoReturn]
  /\ recorded = [p \in Procs |-> <<>>]
  /\ props = NoProps
  /\ failed_writes = [p \in Procs |-> FALSE]
  /\ torn = 0
  /\ argv_flag = [p \in Procs |-> <<>>]
  /\ pipe = <<>>
  /\ wrHolders = {"child"}
  /\ safe_read \in
       {[SafeReadIdle EXCEPT !.pc = "Read", !.bytes_to_read = n,
                             !.later = PeerBytes(count)] :
          n \in 0..MaxRead, count \in 0..(MaxRead + 1)}
  /\ spawn = SpawnDefault
  /\ child_main = ChildMainIdle
  /\ win = WinIdle

\* The peer writes some of the bytes it has yet to write.
PeerWrites ==
  /\ safe_read.pc = "Read"
  /\ \E k \in 1..Len(safe_read.later) :
       /\ pipe' = pipe \o SubSeq(safe_read.later, 1, k)
       /\ safe_read' = [safe_read EXCEPT
                          !.later = SubSeq(@, k + 1, Len(@))]
  /\ UNCHANGED wrHolders
  /\ UNCHANGED << flags, internal_flag, pc, runner, unit, iter, filter,
                  exit_status, diag, rdHolders, rd, sink, emitted, exited_at,
                  bodyRuns, codec, returned, recorded, spawn, child_main, win,
                  argv_flag, torn, props,
                  failed_writes >>

\* The peer has written all its bytes and closes its write end.
PeerCloses ==
  /\ safe_read.pc = "Read"
  /\ safe_read.later = <<>>
  /\ wrHolders # {}
  /\ wrHolders' = {}
  /\ UNCHANGED << pipe, safe_read >>
  /\ UNCHANGED << flags, internal_flag, pc, runner, unit, iter, filter,
                  exit_status, diag, rdHolders, rd, sink, emitted, exited_at,
                  bodyRuns, codec, returned, recorded, spawn, child_main, win,
                  argv_flag, torn, props,
                  failed_writes >>

\* posix::Read returns -1 with errno EINTR: the loop of SafeRead repeats it.
SafeReadInterrupted ==
  /\ safe_read.pc = "Read"
  /\ safe_read.interrupts < MaxInterrupts
  /\ safe_read' = [safe_read EXCEPT !.interrupts = @ + 1]
  /\ UNCHANGED << pipe, wrHolders >>
  /\ UNCHANGED << flags, internal_flag, pc, runner, unit, iter, filter,
                  exit_status, diag, rdHolders, rd, sink, emitted, exited_at,
                  bodyRuns, codec, returned, recorded, spawn, child_main, win,
                  argv_flag, torn, props,
                  failed_writes >>

\* posix::Read returns -1 with another errno: bytes_read > 0 is false, the
\* loop ends and total_bytes_read is returned.
SafeReadFails ==
  /\ safe_read.pc = "Read"
  /\ safe_read' = [safe_read EXCEPT !.pc = "Returned", !.failed = TRUE]
  /\ UNCHANGED << pipe, wrHolders >>
  /\ UNCHANGED << flags, internal_flag, pc, runner, unit, iter, filter,
                  exit_status, diag, rdHolders, rd, sink, emitted, exited_at,
                  bodyRuns, codec, returned, recorded, spawn, child_main, win,
                  argv_flag, torn, props,
                  failed_writes >>

\* posix::Read returns the bytes that are there (or 0 at the end of the
\* stream): they are counted, the loop ends and total_bytes_read is returned.
SafeReadReturns ==
  /\ safe_read.pc = "Read"
  /\ CanRead(pipe, wrHolders = {}, safe_read.bytes_to_read)
  /\ LET got == SafeRead(pipe, safe_read.bytes_to_read)
     IN  /\ safe_read' = [safe_read EXCEPT
                            !.pc = "Returned",
                            !.total_bytes_read = @ + got.n,
                            !.output = @ \o got.bytes]
         /\ pipe' = got.rest
  /\ UNCHANGED wrHolders
  /\ UNCHANGED << flags, internal_flag, pc, runner, unit, iter, filter,
                  exit_status, diag, rdHolders, rd, sink, emitted, exited_at,
                  bodyRuns, codec, returned, recorded, spawn, child_main, win,
                  argv_flag, torn, props,
                  failed_writes >>

NextSafeRead ==
  \/ PeerWrites
  \/ PeerCloses
  \/ SafeReadInterrupted
  \/ SafeReadFails
  \/ SafeReadReturns

SpecSafeRead == InitSafeRead /\ [][NextSafeRead]_vars

(***************************************************************************)
(* Properties of the crash-safe runner, checked under Spec.                *)
(***************************************************************************)
\* The process oversees a unit that runs with isolation switched on.
Overseeing(p) == flags.crash_safe /\ runner[p].spawned

\* C1 (graceful crash): when the child of a supervised unit was killed by a
\* signal and the overseer saw it die, the overseer is not aborted, it has
\* recorded exactly one failure for the death, and it goes on with the run.
C1_GracefulCrash ==
  \A p \in Procs :
    (/\ Overseeing(p)
     /\ runner[p].outcome = "TEST_DIED"
     /\ runner[p].status = WaitStatus.segv
     /\ pc[p] # "ProcessOutcome")
    => /\ pc[p] # "Aborted"
       /\ Cardinality({i \in 1..Len(sink) : sink[i] = ProcessDiedFailure}) = 1

\* C2 (outcome determinism): when Wait has returned, the outcome is
\* TEST_EXITED if and only if the child wrote the Exited marker, and it is
\* TEST_DIED otherwise, whatever results were reported before.
C2_OutcomeDeterminism ==
  \A p \in Procs :
    (Overseeing(p) /\ pc[p] = "ProcessOutcome")
    => /\ (runner[p].outcome = "TEST_EXITED") <=> (exited_at # -1)
       /\ (runner[p].outcome = "TEST_DIED") <=> (exited_at = -1)

\* The results the child reported before its Exited marker or before its
\* death.
EmittedBeforeEnd ==
  SubSeq(emitted, 1, IF exited_at = -1 THEN Len(emitted) ELSE exited_at)

\* C3 (ordered, complete relay): when the outcome of a unit is final, the
\* results handed to the overseer's sink are exactly the results the child
\* reported before it ended, in the same order.
C3_OrderedCompleteRelay ==
  \A p \in Procs :
    (Overseeing(p) /\ pc[p] \in {"WaitPid", "ProcessOutcome"})
    => sink = EmittedBeforeEnd

\* C4 (acknowledged delivery): a result is written to the pipe only when
\* the message before it has been read and handled by the overseer, so that
\* no more than one message is ever in the pipe.
C4_AcknowledgedDelivery ==
  [][(flags.crash_safe /\ Len(emitted') > Len(emitted))
       => (pipe = <<>> /\ rd.pos = "Frame")]_vars

\* C5 (exactly-once execution): the body of a supervised unit is run at
\* most once by the child, it has run when the child reaches TearDown or
\* has ended by itself (unless the new image could not be executed), and the
\* overseer never runs it.
C5_ExactlyOnceExecution ==
  flags.crash_safe
  => /\ bodyRuns["child"] <= 1
     /\ pc["child"] = "TearDown" => bodyRuns["child"] = 1
     /\ (/\ pc["child"] \in {"Exited", "Aborted", "Done"}
         /\ diag["child"] # "chdir or execve failed")
        => bodyRuns["child"] = 1
     /\ \A p \in Procs : Overseeing(p) => bodyRuns[p] = 0

\* C6 (TearDown terminates): the TearDown of an executor ends its process;
\* it does not return to its caller, whichever runner it has.
C6_TearDownTerminates ==
  [][\A p \in Procs :
       (flags.crash_safe /\ pc[p] = "TearDown" /\ pc'[p] # "TearDown")
       => pc'[p] \in {"Exited", "Killed"}]_vars

\* C9 (disabled isolation): with crash_safe off no pipe and no child process
\* are created, and reporting a result is a no-op.
C9_DisabledIsolation ==
  ~flags.crash_safe
  => /\ pc["child"] = "None"
     /\ rdHolders = {} /\ wrHolders = {}
     /\ \A p \in Procs : ~runner[p].spawned /\ runner[p].read_fd = -1
     /\ \A p \in Procs : diag[p] # "CHECK failed: write_fd() != -1"

\* C10 (executor recognition): a process that has the internal flag is,
\* after AssumeRole, the executor whose write end is the descriptor of the
\* flag; it has created no pipe and no child, whatever the style.
C10_ExecutorRecognition ==
  (/\ flags.crash_safe
   /\ internal_flag["parent"] # NoFlag
   /\ pc["parent"] \notin {"Create", "AssumeRole"})
  => /\ runner["parent"].write_fd = internal_flag["parent"]
        \/ runner["parent"] = NoRunner
     /\ ~runner["parent"].spawned
     /\ pc["child"] = "None"
     /\ rdHolders = {} /\ wrHolders = {}

\* C14 (property and clear relay): when a child has sent only property
\* events and a clear, the overseer is not stopped by them, and once it has
\* stopped reading it has seen exactly the events sent, in their order.
C14_PropertyRelay ==
  \A p \in Procs :
    (/\ Overseeing(p)
     /\ emitted = <<>>
     /\ pc[p] \in {"WaitPid", "ProcessOutcome", "Aborted"})
    => props.seen = props.sent

\* Wait has returned to the test loop with a terminal outcome.
WaitHasReturned ==
  /\ pc["parent"] = "ProcessOutcome"
  /\ runner["parent"].outcome \in TerminalOutcomes

\* C15 (liveness of Wait): whenever the child of a supervised unit has
\* ended, Wait eventually returns with a terminal outcome (stated for the
\* children that sent no property event).
C15_WaitReturns ==
  (/\ flags.crash_safe
   /\ Terminated("child")
   /\ props.sent = <<>>) ~> WaitHasReturned

\* C16 (no timeout): while the child of a supervised unit is alive, has not
\* written the Exited marker and holds the write end, the overseer stays in
\* Wait with the outcome TEST_IN_PROGRESS: no step sets a terminal outcome,
\* closes the read end or returns from Wait.  A fatal abort of the overseer
\* is left aside, and so are the children that sent a property event.
C16_NoTimeout ==
  [][(/\ flags.crash_safe
      /\ runner["parent"].spawned
      /\ pc["parent"] = "Wait"
      /\ pc["child"] \in {"ChildMain", "Start", "Create", "AssumeRole",
                          "SetUp", "Body",
                          "FixtureTearDown", "TearDown"}
      /\ exited_at = -1
      /\ "child" \in wrHolders
      /\ props.sent = <<>>)
     => (/\ pc'["parent"] \in {"Wait", "Aborted"}
         /\ runner'["parent"].outcome = "TEST_IN_PROGRESS"
         /\ runner'["parent"].read_fd # -1)]_vars

\* The child process of the current unit exists and has not ended.
ChildAlive == pc["child"] \notin {"None", "Exited", "Killed", "Aborted", "Done"}

\* AssumeRole, called by process p in this state, would create a process:
\* NoExecTestRunner always forks, ExecTestRunner spawns without a flag.
WouldCreateChild(p) ==
  /\ pc[p] = "AssumeRole"
  /\ \/ runner[p].kind = "NoExecTestRunner"
     \/ runner[p].kind = "ExecTestRunner" /\ internal_flag[p] = NoFlag

\* One overseer, one executor, one child and one pipe for a unit.
OnePair ==
  /\ ~runner["child"].spawned
  /\ ~WouldCreateChild("child")
  /\ WouldCreateChild("parent") => ~ChildAlive
  /\ runner["parent"].spawned
       => /\ runner["parent"].child_pid = 1
          /\ runner["parent"].write_fd = -1
          /\ "parent" \notin wrHolders
  /\ ChildAlive
       => /\ runner["parent"].spawned
          /\ runner["child"].read_fd = -1
          /\ pc["child"] \in {"SetUp", "Body", "FixtureTearDown", "TearDown"}
               => /\ runner["child"].write_fd = PipeFd[2]
                  /\ "child" \notin rdHolders
                  /\ wrHolders = {"child"}

C18_ReporterForwards ==
  \A p \in Procs :
    (/\ pc[p] \in {"Body", "FixtureTearDown", "TearDown"}
     /\ IntoPipe(p))
    => recorded[p] = emitted

\* C19 (a transport fault in the executor is fatal): a process one of whose
\* writes of a result or of the Exited marker has failed has ended with a
\* diagnostic; it is not running on, and it did not end without one.
C19_WriteFaultFatal ==
  \A p \in Procs :
    failed_writes[p] => (pc[p] \in {"Aborted", "Exited"} /\ diag[p] # "")

\* C20 (end of stream inside a message): when the child was killed while
\* it wrote its first result, so that the pipe ends after the byte 'R' and
\* before the end of the message, the overseer does not classify the child
\* as TEST_DIED and does not go on from the read loop: it stays in Wait
\* until it has read the bytes, and then aborts.
C20_TornMessageFatal ==
  (runner["parent"].spawned /\ torn > 0 /\ emitted = <<>>)
    => /\ runner["parent"].outcome = "TEST_IN_PROGRESS"
       /\ pc["parent"] \in {"Wait", "Aborted"}

\* C25 (the flag built for the child is accepted by the child): a child
\* that was re-executed with the internal flag that AssumeRole formatted
\* from the write end has, once its flags are parsed, an internal flag whose
\* write_fd is the write end, and it has not aborted over the flag.
C25_FlagRoundTrip ==
  (/\ runner["parent"].spawned
   /\ runner["parent"].kind = "ExecTestRunner"
   /\ argv_flag["child"] = FormatInternalFlag(PipeFd[2])
   /\ pc["child"] \notin {"None", "ChildMain", "Start"})
  => /\ internal_flag["child"] = PipeFd[2]
     /\ diag["child"] # "Bad --gtest_internal_test_runner flag"

\* Every way the next reads of the overseer can go ends at event ev.
NextReadsEndAt(ev) ==
  /\ Reading("parent")
  /\ \A o \in ReaderRunsFrom(rd, pipe) : o.ev = ev

\* The overseer takes a step.
OverseerSteps ==
  \/ pc'["parent"] # pc["parent"]
  \/ rd' # rd
  \/ sink' # sink
  \/ runner' # runner

\* C21 (a byte that is no status byte): when the reads of the overseer come
\* to a framing byte that is none of 'R', 'E' and 'I', the overseer aborts
\* with the "unexpected status byte" diagnostic; its outcome stays
\* TEST_IN_PROGRESS, the sink gets the results read before that byte and,
\* once the overseer has aborted, nothing more.
C21_UnexpectedByteFatal ==
  [][/\ (NextReadsEndAt("unexpected") /\ OverseerSteps)
        => /\ pc'["parent"] = "Aborted"
           /\ diag'["parent"]
                = "Test child process reported unexpected status byte"
           /\ runner'["parent"] = runner["parent"]
           /\ runner["parent"].outcome = "TEST_IN_PROGRESS"
           /\ \E o \in ReaderRunsFrom(rd, pipe) : sink' = sink \o o.reported
     /\ pc["parent"] = "Aborted"
        => /\ sink' = sink
           /\ pc'["parent"] = "Aborted"
           /\ runner'["parent"] = runner["parent"]]_vars

\* The overseer has aborted over a byte that is no status byte, after it
\* has handed one result to the sink.
C21_Witness ==
  /\ pc["parent"] = "Aborted"
  /\ diag["parent"] = "Test child process reported unexpected status byte"
  /\ runner["parent"].outcome = "TEST_IN_PROGRESS"
  /\ Len(sink) = 1
  /\ Len(emitted) = 2

\* C22 (internal error is fatal): when the next byte the overseer reads as a
\* status byte is 'I', the overseer aborts, and the diagnostic it logs is the
\* text that followed the 'I' in the stream.  It writes nothing to the pipe
\* (no acknowledgment), sets no outcome, hands on no result other than those
\* read before the 'I', and once aborted it reads nothing more.
C22_InternalErrorFatal ==
  [][/\ (NextReadsEndAt("internal_error") /\ OverseerSteps) =>
          \E o \in ReaderRunsFrom(rd, pipe) :
            /\ pc'["parent"] = "Aborted"
            /\ diag'["parent"] = TextOf(o.rest)
            /\ sink' = sink \o o.reported
            /\ runner'["parent"] = runner["parent"]
            /\ pipe' = <<>>
            /\ "parent" \notin wrHolders'
     /\ pc["parent"] = "Aborted" =>
          /\ pc'["parent"] = "Aborted"
          /\ UNCHANGED << rd, sink, pipe, diag >>]_vars

C22_Witness ==
  /\ pc["parent"] = "Aborted"
  /\ diag["parent"] = "Bad --gtest_internal_test_runner flag"
  /\ runner["parent"].outcome = "TEST_IN_PROGRESS"
  /\ Len(sink) = 1
  /\ rd = RdInit
  /\ pipe = <<>>

\* C23 (invalid style is fatal): under a style flag that is neither "fast"
\* nor "threadsafe" the process does not get past TestRunner::Create: it has
\* ended with a diagnostic.
C23_InvalidStyleFatal ==
  \A p \in Procs :
    (flags.test_runner_style \notin {"fast", "threadsafe"} /\ pc[p] # "None") =>
       \/ pc[p] = "Create"
       \/ pc[p] = "Aborted" /\ diag[p] # ""

C27_OutcomeSetOnce ==
  [][\A p \in Procs :
       /\ (pc[p] = "Create" /\ pc'[p] = "AssumeRole") =>
             runner'[p].outcome = "TEST_IN_PROGRESS"
       /\ (/\ pc[p] # "Create"
           /\ runner'[p] # NoRunner
           /\ runner'[p].outcome # runner[p].outcome) =>
             /\ p = "parent"
             /\ runner[p].spawned
             /\ pc[p] = "Wait"
             /\ runner[p].outcome = "TEST_IN_PROGRESS"
             /\ runner'[p].outcome \in {"TEST_EXITED", "TEST_DIED"}]_vars

\* The overseer of the second unit has set the outcome of its runner, after
\* the runner of the first unit had got its own.
C27_Witness ==
  /\ unit["parent"] = 2
  /\ iter["parent"] = 1
  /\ runner["parent"].spawned
  /\ runner["parent"].outcome = "TEST_EXITED"
  /\ pc["parent"] = "ProcessOutcome"

\* C28 (pipe ends): once AssumeRole has returned in the overseer, its
\* write_fd is -1 and it holds no write end of the pipe; once the process
\* that executes the test is past AssumeRole, its read_fd is -1 and it holds
\* no read end; and from the point where a process has closed its unused end
\* (the child of the exec style does so in ExecTestRunnerChildMain) no process
\* holds both ends.
C28_PipeEnds ==
  \A p \in Procs :
    /\ (runner[p].spawned /\ pc[p] \in {"Wait", "WaitPid", "ProcessOutcome"}) =>
          (runner[p].write_fd = -1 /\ p \notin wrHolders)
    /\ pc[p] \in {"SetUp", "Body", "FixtureTearDown", "TearDown"} =>
          (runner[p].read_fd = -1 /\ p \notin rdHolders)
    /\ pc[p] # "ChildMain" => ~(p \in rdHolders /\ p \in wrHolders)

\* The overseer waits with the read end and the child runs the test body
\* with the write end.
C28_Witness ==
  /\ pc["parent"] = "Wait"
  /\ runner["parent"].read_fd = PipeFd[1]
  /\ rdHolders = {"parent"}
  /\ pc["child"] = "Body"
  /\ runner["child"].write_fd = PipeFd[2]
  /\ wrHolders = {"child"}

\* C29 (the read end is closed after the loop): when the loop of the
\* overseer ends and Wait goes on, the overseer has closed the read end and
\* its read_fd is -1; a loop that ends in a fatal message ends the process,
\* which holds no descriptor any more.  So read_fd is -1 when a runner that
\* went through AssumeRole, Wait and ProcessOutcome is deleted, and the check
\* of the destructor holds.
C29_ReadEndClosed ==
  [][\A p \in Procs :
       /\ (pc[p] = "Wait" /\ runner[p].spawned /\ pc'[p] # "Wait") =>
             /\ p \notin rdHolders'
             /\ pc'[p] # "Aborted" =>
                   (pc'[p] = "WaitPid" /\ runner'[p].read_fd = -1)
       /\ (runner[p].spawned /\ pc[p] \in {"WaitPid", "ProcessOutcome"}) =>
             (runner[p].read_fd = -1 /\ p \notin rdHolders)
       /\ (pc[p] = "ProcessOutcome" /\ runner[p] # NoRunner
              /\ runner'[p] = NoRunner) =>
             runner[p].read_fd = -1]_vars

\* ProcessOutcome has returned true for the runner of the first unit, the
\* runner is deleted and the overseer is at the second unit.
C29_Witness ==
  /\ returned["parent"] = ProcessOutcomeReturned(TRUE)
  /\ runner["parent"] = NoRunner
  /\ pc["parent"] = "Create"
  /\ unit["parent"] = 2
  /\ rdHolders = {}

\* The pipe holds exactly the message of the result that was reported last,
\* and the overseer is about to read a status byte.
OneMessagePending ==
  /\ Reading("parent")
  /\ rd = RdInit
  /\ props.sent = <<>>
  /\ torn = 0
  /\ exited_at = -1
  /\ emitted # <<>>
  /\ pipe \in {m.bytes : m \in {d \in ReportMessage(emitted[Len(emitted)]) :
                                   ~d.crash}}

\* C30 (the stream stays aligned): when the pipe holds one whole message of
\* a test part result and the overseer reads, it hands on one result and is
\* back at the status byte of the next message; no byte of the message is
\* taken for a status byte, so the overseer neither aborts nor takes the test
\* for exited.
C30_FrameAligned ==
  [][(OneMessagePending /\ OverseerSteps) =>
        /\ Len(sink') = Len(sink) + 1
        /\ rd' = RdInit
        /\ pc'["parent"] # "Aborted"
        /\ runner'["parent"].outcome # "TEST_EXITED"]_vars

\* C31 (unrecognized type byte): when the message the overseer is about to
\* read is a test part result whose type byte is none of 'S', 'N', 'F', the
\* overseer aborts and hands no result to the sink.
C31_BadTypeByteFatal ==
  [][(/\ Reading("parent")
      /\ rd = RdInit
      /\ Len(pipe) >= 2
      /\ pipe[1] = kTestRunnerTestPartResult
      /\ pipe[2] \notin {kTypeSuccess, kTypeNonFatalFailure, kTypeFatalFailure}
      /\ OverseerSteps) =>
        /\ pc'["parent"] = "Aborted"
        /\ sink' = sink]_vars

\* The peer has written everything and closed its end, and no byte is left.
EndOfStream == wrHolders = {} /\ pipe = <<>> /\ safe_read.later = <<>>

\* C32 (SafeRead reads exactly n bytes): a call of SafeRead that returns
\* without a failed read and with fewer than bytes_to_read bytes has come to
\* the end of the stream; otherwise it returns bytes_to_read, with the bytes
\* in the order they were written.
C32_SafeReadExact ==
  (safe_read.pc = "Returned" /\ ~safe_read.failed) =>
     /\ safe_read.total_bytes_read = Len(safe_read.output)
     /\ safe_read.output =
          SubSeq(safe_read.output \o pipe \o safe_read.later, 1,
                 Len(safe_read.output))
     /\ \/ safe_read.total_bytes_read = safe_read.bytes_to_read
        \/ safe_read.total_bytes_read < safe_read.bytes_to_read /\ EndOfStream

\* C33 (end of stream and error are told apart): a call of SafeRead whose
\* posix::Read failed with an error other than EINTR returns -1, and a call
\* that returns 0 for a positive bytes_to_read is at the end of the stream.
C33_ErrorIsNotEndOfStream ==
  safe_read.pc = "Returned" =>
     /\ safe_read.failed => safe_read.total_bytes_read = -1
     /\ (safe_read.total_bytes_read = 0 /\ safe_read.bytes_to_read > 0)
          => EndOfStream

\* C34 (TestRunnerAbort relays through the channel): when a child process
\* ends in TestRunnerAbort while it holds the write end of the pipe, 'I' and
\* the text of the diagnostic are written to the pipe and the child exits
\* with status 1; it aborts with the diagnostic printed only when it holds no
\* write end.
C34_AbortRelayed ==
  [][(diag'["child"] # diag["child"] /\ diag'["child"] # "") =>
        IF "child" \in wrHolders
          THEN /\ pipe' = pipe \o <<kTestRunnerInternalError>>
                               \o MessageChars(diag'["child"])
               /\ pc'["child"] = "Exited"
               /\ exit_status'["child"] = WaitStatus.exit1
          ELSE /\ pipe' = pipe
               /\ pc'["child"] = "Aborted"]_vars

\* C36 (the fast style creates its child by clone): when the fork-and-run
\* runner creates its child, the call is clone where the build has it and the
\* use-fork flag of the test runner is off, and fork otherwise.
C36_FastStyleClones ==
  [][(/\ pc["parent"] = "AssumeRole"
      /\ runner["parent"].kind = "NoExecTestRunner"
      /\ runner'["parent"].spawned) =>
        spawn'.primitive =
          IF spawn.has_clone /\ ~spawn.test_runner_use_fork
            THEN "clone" ELSE "fork"]_vars

\* The system calls among the calls of the child.
SystemCalls(calls) ==
  SelectSeq(calls, LAMBDA c : c \in {"close", "chdir", "execve"})

\* C37 (entry of the re-executing child): the system calls of
\* ExecTestRunnerChildMain come in the order close, chdir, execve; before the
\* image is replaced the child calls nothing that allocates on the heap and
\* no buffered I/O, also when a system call has failed; and execve is not
\* called when chdir has failed.
C37_ChildEntry ==
  child_main.pc # "Off" =>
    /\ \E n \in 0..3 :
         SystemCalls(child_main.calls)
           = SubSeq(<< "close", "chdir", "execve" >>, 1, n)
    /\ \A i \in 1..Len(child_main.calls) :
         child_main.calls[i] \notin HeapCalls \cup BufferedIoCalls
    /\ child_main.failed = "chdir" =>
         \A i \in 1..Len(child_main.calls) : child_main.calls[i] # "execve"

C39_NothingSpawned ==
  [][\A p \in Procs :
       /\ (pc[p] = "Wait" /\ ~runner[p].spawned /\ pc'[p] # "Wait") =>
            /\ returned'[p] = WaitReturned(0)
            /\ pc'[p] = "ProcessOutcome"
            /\ UNCHANGED << runner, pipe, rd, rdHolders, wrHolders, sink,
                            exit_status, diag >>
            /\ \A q \in Procs \ {p} : pc'[q] = pc[q]
       /\ (/\ pc[p] = "ProcessOutcome"
           /\ ~runner[p].spawned
           /\ pc'[p] # "ProcessOutcome") =>
            /\ returned'[p] = ProcessOutcomeReturned(FALSE)
            /\ pc'[p] # "Aborted"
            /\ diag' = diag
       /\ runner'[p].spawned =>
            /\ p = "parent"
            /\ \/ runner[p].spawned
               \/ pc["child"] = "None" /\ pc'["child"] # "None"]_vars

\* ProcessOutcome has returned false to the first process, which was started
\* with an internal flag and whose runner had not yet seen an outcome.
C39_Witness ==
  /\ returned["parent"] = ProcessOutcomeReturned(FALSE)
  /\ internal_flag["parent"] # NoFlag
  /\ pc["parent"] # "Aborted"

\* C40 (length in range): the length that ExtractStringFromStream has read
\* is, as the int it hands to SafeRead, not negative, and one more than it
\* (the size of the buffer) has not wrapped to 0, whatever four bytes were
\* received.
C40_LengthInRange ==
  rd.pos \in {"FData", "MData"} =>
    /\ ReadCount(rd) >= 0
    /\ Int32Bytes(rd.size) # <<255, 255, 255, 255>>

\* C11 (outcome from the channel only): when Wait has returned, a child
\* that exited with status 0 without having written the Exited marker is
\* classified TEST_DIED, and a child that wrote the marker and ended with a
\* status other than 0 is classified TEST_EXITED.
C11_OutcomeFromChannelOnly ==
  \A p \in Procs :
    (Overseeing(p) /\ pc[p] = "ProcessOutcome")
    => /\ (runner[p].status = WaitStatus.exit0 /\ exited_at = -1)
          => runner[p].outcome = "TEST_DIED"
       /\ (runner[p].status # WaitStatus.exit0 /\ exited_at # -1)
          => runner[p].outcome = "TEST_EXITED"

C13_ProcessOutcome ==
  [][\A p \in Procs :
       (pc[p] = "ProcessOutcome" /\ runner[p].spawned)
       => /\ runner[p].outcome = "TEST_EXITED"
             => /\ returned'[p] = ProcessOutcomeReturned(TRUE)
                /\ pc'[p] # "Aborted"
                /\ diag'[p] = ""
          /\ runner[p].outcome \notin TerminalOutcomes
             => /\ pc'[p] = "Aborted"
                /\ diag'[p] = "Unexpected child process outcome"
    ]_vars

\* ProcessOutcome was called with TEST_IN_PROGRESS and has aborted.
C13_Witness ==
  /\ pc["parent"] = "Aborted"
  /\ runner["parent"].spawned
  /\ runner["parent"].outcome = "TEST_IN_PROGRESS"
  /\ diag["parent"] = "Unexpected child process outcome"

(***************************************************************************)
(* Properties of the flag parser, checked under SpecFlag.                  *)
(***************************************************************************)
\* The positions of the separator in a flag value.
Bars(text) == {i \in 1..Len(text) : text[i] = kBar}

\* The characters after the only separator of a flag value.
AfterBar(text) ==
  LET at == CHOOSE i \in Bars(text) : TRUE
  IN  [i \in 1..(Len(text) - at) |-> text[at + i]]

\* The value has two fields and the second is a natural number.
TwoFieldsWithNumber(text) ==
  /\ Cardinality(Bars(text)) = 1
  /\ AfterBar(text) # <<>>
  /\ \A i \in 1..Len(AfterBar(text)) : AfterBar(text)[i] \in 48..57

\* Ten to the power n.
RECURSIVE TenTo(_)
TenTo(n) == IF n = 0 THEN 1 ELSE 10 * TenTo(n - 1)

\* The number that digits are the decimal text of: the first digit counts
\* for ten to the power of the number of digits after it.
RECURSIVE NumberOf(_)
NumberOf(digits) ==
  IF digits = <<>> THEN 0
  ELSE (digits[1] - 48) * TenTo(Len(digits) - 1) + NumberOf(Tail(digits))

C35_RestartStyle ==
  [][/\ (/\ pc["parent"] = "AssumeRole"
         /\ runner["parent"].kind = "ExecTestRunner"
         /\ runner'["parent"].spawned) =>
           (pc'["child"] = "ChildMain" /\ bodyRuns'["child"] = 0)
     /\ (pc["child"] = "ChildMain" /\ pc'["child"] # "ChildMain") =>
           /\ bodyRuns'["child"] = 0
           /\ \/ Terminated("child")'
              \/ /\ pc'["child"] = "Start"
                 /\ flags' = flags
                 /\ filter'["child"] = {unit["parent"]}
                 /\ argv_flag'["child"] # <<>>
                 /\ NumberOf(argv_flag'["child"]) = PipeFd[2]
                 /\ internal_flag'["child"] = NoFlag
                 /\ runner'["child"] = NoRunner
                 /\ "child" \in wrHolders']_vars

\* The child of the first unit has replaced its image: it is at the start
\* of the program with the filter for unit 1 alone and the flag for
\* descriptor 4, and has run no body.
C35_Witness ==
  /\ pc["child"] = "Start"
  /\ unit["parent"] = 1
  /\ filter["child"] = {1}
  /\ bodyRuns["child"] = 0
  /\ argv_flag["child"] = <<kZero + 4>>
  /\ pc["parent"] = "Wait"

(***************************************************************************)
(* Properties of the serialization, checked under SpecCodec.               *)
(***************************************************************************)
CodecEnded == codec.pc \in {"Done", "Failed", "Crashed"}

\* C7 (round trip): a result whose file name and message are strings, empty
\* strings included, is serialized and extracted to the same kind, file
\* name, line number and message.
C7_RoundTrip ==
  (/\ CodecEnded
   /\ ~codec.input.file_name.isNull
   /\ ~codec.input.message.isNull)
  => codec.pc = "Done" /\ codec.output = codec.input

\* The bytes of a string with a presence byte in front: 0 for an absent
\* string, 1 and the length and the characters for a present one.
WithPresence(str) ==
  IF str.isNull THEN <<0>> ELSE <<1>> \o Int32Bytes(Len(str.chars)) \o str.chars

\* C8 (null and empty strings): an absent string is encoded as presence
\* byte 0 and extracted as absent, an empty string as presence byte 1 with
\* length 0 and extracted as the empty string.
C8_NullAndEmptyStrings ==
  /\ codec.pc \in {"Extract", "Done", "Failed"}
     => codec.encoded =
          <<TypeIndicator(codec.input.type)>>
            \o WithPresence(codec.input.file_name)
            \o Int32Bytes(codec.input.line_number)
            \o WithPresence(codec.input.message)
  /\ (/\ CodecEnded
      /\ codec.input.file_name \in {NullStr, Str(<<>>)}
      /\ codec.input.message \in {NullStr, Str(<<>>)})
     => codec.pc = "Done" /\ codec.output = codec.input

=============================================================================
